---- MODULE Spec2Model ----
(***************************************************************************)
(* RecoDeck audio core: the waveform BLOB codec (audio/waveform.rs), the   *)
(* streaming AudioDecoder (audio/decoder.rs) and the playback commands     *)
(* with their background decode loop (commands/playback.rs).               *)
(*                                                                         *)
(* Number representation.  TLC's integers are 32-bit signed, so a u32 or   *)
(* an f32 bit pattern is a natural number below 2^31, and a u64 that is    *)
(* serialised (WaveformData.duration_ms) is the pair <<lo, hi>> of its two *)
(* 32-bit halves.  Sequences are 1-based: byte k of a blob is blob[k + 1]. *)
(***************************************************************************)
EXTENDS Integers, Sequences, FiniteSets, Bags, TLC

VARIABLES
    \* ---- waveform BLOB codec ----
    bphase,     \* "build" | "blob" | "edited" | "sized" | "restored" | "decoded"
    wf,         \* the WaveformData being serialised
    blob,       \* the byte sequence handed to from_blob
    restored,   \* the result of from_blob, or NoResult
    \* ---- streaming decoder ----
    files,      \* the audio files of the library: track id -> file
    decoder,    \* PlaybackState.decoder: None or Some(AudioDecoder)
    call,       \* the last call on the decoder: what it was given and returned
    \* ---- playback commands ----
    is_playing,         \* PlaybackState.is_playing
    current_track_id,   \* PlaybackState.current_track_id
    task_generation,    \* PlaybackState.task_generation
    mutex,      \* the owner of each of the four mutexes of PlaybackState
    cmd,        \* the command each frontend invocation is running, and where it is
    loop,       \* the background decode loops spawned by play
    limits      \* how many commands run concurrently and how many loops may be alive

blobVars == <<bphase, wf, blob, restored>>
decVars == <<files, decoder, call>>
playVars == <<is_playing, current_track_id, task_generation, mutex, cmd, loop, limits>>
nonBlobVars == <<files, decoder, call, playVars>>
nonDecVars == <<bphase, wf, blob, restored, playVars>>

vars == <<bphase, wf, blob, restored, files, decoder, call,
          is_playing, current_track_id, task_generation, mutex, cmd, loop, limits>>

None == [some |-> FALSE]
Some(x) == [some |-> TRUE, val |-> x]

NoResult == [tag |-> "none"]

\* Mutex owners: nobody, command invocation c, a spawned loop.
Free == <<"free", 0>>
Cmd(c) == <<"cmd", c>>
LoopTask == <<"loop", 0>>

AllFree ==
    [ m \in {"db", "decoder", "is_playing", "current_track_id", "task_generation"} |-> Free ]

\* PlaybackState::new, with no command and no loop able to run.
PlaybackOff ==
    /\ is_playing = FALSE
    /\ current_track_id = None
    /\ task_generation = 0
    /\ mutex = AllFree
    /\ cmd = << >>
    /\ loop = EmptyBag
    /\ limits = [cmds |-> 0, loops |-> 0]

(***************************************************************************)
(*                      Waveform BLOB (waveform.rs)                        *)
(***************************************************************************)

\* Bounds of the BLOB model.
MaxPoints == 2

\* Program constants of the encoding.
BLOB_VERSION == 1
HEADER_LEN == 17
POINT_LEN == 7

\* f32 bit patterns: 0.5, 0.8 and 1.0 (IEEE-754 single precision).
F32_HALF == 1056964608
F32_0_8 == 1061997773

\* The inputs the serialiser is run on.
PointVals ==
    { [peak |-> F32_HALF, low |-> 100, mid |-> 150, high |-> 200],
      [peak |-> F32_0_8,  low |-> 50,  mid |-> 100, high |-> 150],
      [peak |-> 0,        low |-> 0,   mid |-> 255, high |-> 1] }
\* (sample_rate, duration_ms) pairs; duration_ms as <<lo, hi>>: 5000 ms, and
\* 2^32 + 258 ms.
MetaVals == { <<44100, <<5000, 0>> >>, <<48000, <<258, 1>> >> }
\* The values a byte of a stored blob may be overwritten or padded with.
EditBytes == {0, 1, 2}

\* u32::to_le_bytes
U32ToLe(x) ==
    << x % 256, (x \div 256) % 256, (x \div 65536) % 256, (x \div 16777216) % 256 >>

\* u32::from_le_bytes([b0, b1, b2, b3])
U32FromLe(b0, b1, b2, b3) ==
    b0 + 256 * b1 + 65536 * b2 + 16777216 * b3

\* u64::to_le_bytes of <<lo, hi>>
U64ToLe(d) == U32ToLe(d[1]) \o U32ToLe(d[2])

\* u64::from_le_bytes of eight bytes, as <<lo, hi>>
U64FromLe(b) ==
    << U32FromLe(b[1], b[2], b[3], b[4]), U32FromLe(b[5], b[6], b[7], b[8]) >>

\* `len as u32`: truncation to 32 bits, computed in 16-bit halves.
AsU32(n) == (n % 65536) + 65536 * ((n \div 65536) % 65536)

\* f32::to_le_bytes / f32::from_le_bytes act on the bit pattern.
F32ToLe(bits) == U32ToLe(bits)
F32FromLe(b0, b1, b2, b3) == U32FromLe(b0, b1, b2, b3)

PointBytesPeakLast(p) == << p.low, p.mid, p.high >> \o F32ToLe(p.peak)

\* One iteration of the `for point in &self.points` loop of to_blob.
PointBytes(p) == F32ToLe(p.peak) \o << p.low, p.mid, p.high >>

RECURSIVE PointsBytes(_)
PointsBytes(ps) ==
    IF ps = << >> THEN << >>
    ELSE PointBytes(Head(ps)) \o PointsBytes(Tail(ps))

\* WaveformData::to_blob
to_blob(w) ==
    << BLOB_VERSION >>
        \o U32ToLe(w.sample_rate)
        \o U64ToLe(w.duration_ms)
        \o U32ToLe(AsU32(Len(w.points)))
        \o PointsBytes(w.points)

ReadPointSwapped(b, offset) ==
    [ peak |-> F32FromLe(b[offset + 1], b[offset + 2], b[offset + 3], b[offset + 4]),
      low  |-> b[offset + 6],
      mid  |-> b[offset + 5],
      high |-> b[offset + 7] ]

\* The body of the `for _ in 0..points_count` loop of from_blob, at `offset`
\* (0-based).
ReadPoint(b, offset) ==
    [ peak |-> F32FromLe(b[offset + 1], b[offset + 2], b[offset + 3], b[offset + 4]),
      low  |-> b[offset + 5],
      mid  |-> b[offset + 6],
      high |-> b[offset + 7] ]

LengthTooShort(len, expected_len) == len < expected_len

\* The length test of from_blob: blob.len() != expected_len.
LengthMismatch(len, expected_len) == len # expected_len

\* WaveformData::from_blob
from_blob(b) ==
    IF Len(b) < HEADER_LEN THEN [tag |-> "Err", why |-> "too short"]
    ELSE IF b[1] # BLOB_VERSION THEN [tag |-> "Err", why |-> "version"]
    ELSE
        LET sample_rate  == U32FromLe(b[2], b[3], b[4], b[5])
            duration_ms  == U64FromLe(SubSeq(b, 6, 13))
            points_count == U32FromLe(b[14], b[15], b[16], b[17])
            expected_len == HEADER_LEN + points_count * POINT_LEN
        IN  IF LengthMismatch(Len(b), expected_len)
            THEN [tag |-> "Err", why |-> "length"]
            ELSE [ tag |-> "Ok",
                   value |-> [ points |-> [ i \in 1..points_count |->
                                   ReadPoint(b, HEADER_LEN + (i - 1) * POINT_LEN) ],
                               sample_rate |-> sample_rate,
                               duration_ms |-> duration_ms ] ]

\* ---- the codec's state machine: build a WaveformData, serialise it,
\* ---- optionally damage the stored bytes, deserialise.

BlobInit ==
    /\ bphase = "build"
    /\ \E m \in MetaVals :
          wf = [points |-> << >>, sample_rate |-> m[1], duration_ms |-> m[2]]
    /\ blob = << >>
    /\ restored = NoResult
    /\ files = << >>
    /\ decoder = None
    /\ call = [op |-> "none"]
    /\ PlaybackOff

\* points.push(WaveformPoint { .. }) while the waveform is generated
PushPoint(p) ==
    /\ bphase = "build"
    /\ Len(wf.points) < MaxPoints
    /\ wf' = [wf EXCEPT !.points = Append(@, p)]
    /\ UNCHANGED <<bphase, blob, restored>>
    /\ UNCHANGED nonBlobVars

\* let blob = data.to_blob()
ToBlob ==
    /\ bphase = "build"
    /\ blob' = to_blob(wf)
    /\ bphase' = "blob"
    /\ UNCHANGED <<wf, restored>>
    /\ UNCHANGED nonBlobVars

\* The stored bytes are damaged: one byte is overwritten.
OverwriteByte(i, v) ==
    /\ bphase = "blob"
    /\ i \in 1..Len(blob)
    /\ blob[i] # v
    /\ blob' = [blob EXCEPT ![i] = v]
    /\ bphase' = "edited"
    /\ UNCHANGED <<wf, restored>>
    /\ UNCHANGED nonBlobVars

\* The stored bytes are damaged: the blob is cut to n bytes, or padded with
\* v up to n bytes.
Resize(n, v) ==
    /\ bphase \in {"blob", "edited"}
    /\ n # Len(blob)
    /\ blob' = [ i \in 1..n |-> IF i <= Len(blob) THEN blob[i] ELSE v ]
    /\ bphase' = "sized"
    /\ UNCHANGED <<wf, restored>>
    /\ UNCHANGED nonBlobVars

\* WaveformData::from_blob(&blob)
FromBlob ==
    /\ bphase \in {"blob", "edited", "sized"}
    /\ restored' = from_blob(blob)
    /\ bphase' = IF bphase = "blob" THEN "restored" ELSE "decoded"
    /\ UNCHANGED <<wf, blob>>
    /\ UNCHANGED nonBlobVars

BlobNext ==
    \/ \E p \in PointVals : PushPoint(p)
    \/ ToBlob
    \/ \E i \in 1..(HEADER_LEN + POINT_LEN * MaxPoints), v \in EditBytes : OverwriteByte(i, v)
    \/ \E n \in 0..(HEADER_LEN + POINT_LEN * (MaxPoints + 1)), v \in EditBytes : Resize(n, v)
    \/ FromBlob

SpecBlob == BlobInit /\ [][BlobNext]_vars

\* ---- claims about the BLOB codec ----

\* C3: round trip.  Whenever from_blob has been run on the bytes to_blob
\* produced, it returned Ok with the same sample_rate, the same duration_ms,
\* the same number of points and the same (peak, low, mid, high) at every
\* index.
C3_RoundTrip ==
    bphase = "restored" =>
        /\ restored.tag = "Ok"
        /\ restored.value.sample_rate = wf.sample_rate
        /\ restored.value.duration_ms = wf.duration_ms
        /\ Len(restored.value.points) = Len(wf.points)
        /\ \A i \in 1..Len(wf.points) :
              /\ restored.value.points[i].peak = wf.points[i].peak
              /\ restored.value.points[i].low  = wf.points[i].low
              /\ restored.value.points[i].mid  = wf.points[i].mid
              /\ restored.value.points[i].high = wf.points[i].high

\* A non-empty waveform went through to_blob and from_blob.
C3_Witness ==
    /\ bphase = "restored"
    /\ Len(wf.points) >= 2
    /\ wf.points[1] # wf.points[2]
    /\ restored.tag = "Ok"

\* The point count a blob of at least 17 bytes declares in bytes 13..16.
DeclaredCount(b) == b[14] + 256 * b[15] + 65536 * b[16] + 16777216 * b[17]

\* C4: from_blob returns Ok if and only if the input has at least 17 bytes,
\* byte 0 is 1 and the length is exactly 17 + 7 * point_count; an Ok result
\* holds exactly point_count points and an Err result holds no data.
C4_AcceptIff ==
    bphase \in {"restored", "decoded"} =>
        LET accepted ==
                /\ Len(blob) >= 17
                /\ blob[1] = 1
                /\ Len(blob) = 17 + 7 * DeclaredCount(blob)
        IN  /\ (restored.tag = "Ok") <=> accepted
            /\ restored.tag \in {"Ok", "Err"}
            /\ restored.tag = "Ok" =>
                  Len(restored.value.points) = DeclaredCount(blob)
            /\ restored.tag = "Err" => "value" \notin DOMAIN restored

\* A damaged blob with an intact header and version, and with bytes after
\* the header, was rejected for its length.
C4_Witness ==
    /\ bphase = "decoded"
    /\ Len(blob) > 17
    /\ blob[1] = 1
    /\ restored.tag = "Err"

\* Byte k (0-based, little-endian) of x.
ByteOf(x, k) == (x \div (256 ^ k)) % 256

\* C5: to_blob lays out 17 + 7n bytes: version 1, sample_rate (u32 LE),
\* duration_ms (u64 LE), n (u32 LE), then per point peak (f32 LE), low, mid,
\* high.
C5_Layout ==
    bphase = "blob" =>
        LET n == Len(wf.points) IN
        /\ Len(blob) = 17 + 7 * n
        /\ blob[1] = 1
        /\ \A k \in 0..3 : blob[2 + k] = ByteOf(wf.sample_rate, k)
        /\ \A k \in 0..3 : blob[6 + k] = ByteOf(wf.duration_ms[1], k)
        /\ \A k \in 0..3 : blob[10 + k] = ByteOf(wf.duration_ms[2], k)
        /\ \A k \in 0..3 : blob[14 + k] = ByteOf(n, k)
        /\ \A i \in 0..(n - 1) :
              /\ \A k \in 0..3 : blob[17 + 7 * i + 1 + k] = ByteOf(wf.points[i + 1].peak, k)
              /\ blob[17 + 7 * i + 5] = wf.points[i + 1].low
              /\ blob[17 + 7 * i + 6] = wf.points[i + 1].mid
              /\ blob[17 + 7 * i + 7] = wf.points[i + 1].high

\* A waveform of two or more points with a duration above 2^32 ms was
\* serialised.
C5_Witness ==
    /\ bphase = "blob"
    /\ Len(wf.points) >= 2
    /\ wf.duration_ms[2] > 0

(***************************************************************************)
(*                 Streaming AudioDecoder (decoder.rs)                     *)
(*                                                                         *)
(* A file is what the format reader yields from it: a finite sequence of   *)
(* events, each a packet or a read error, followed by end of stream        *)
(* (IoError UnexpectedEof) for ever.  A packet belongs to a track, carries *)
(* a timestamp in time-base ticks and a sample buffer (one sequence per    *)
(* channel), and decodes to its buffer ("ok"), fails with DecodeError      *)
(* ("corrupt") or fails with another codec error ("fatal").                *)
(***************************************************************************)

\* Bounds of the decoder model.
MaxStream == 3

\* margin_ms of AudioDecoder::seek
MARGIN_MS == 100
\* unwrap_or(44100) of AudioDecoder::new
DEFAULT_SAMPLE_RATE == 44100
\* Ticks between two packets of a modelled file: 100 ms at 44100 ticks/s.
TICKS_PER_PACKET == 4410

OWN_TRACK == 0
OTHER_TRACK == 1

EventKinds == {"ok", "corrupt", "fatal", "other", "ioerr"}

\* The i-th event of a file, of the given kind.
Event(kind, i) ==
    IF kind = "ioerr" THEN [kind |-> "ioerr"]
    ELSE [ kind   |-> "packet",
           track  |-> IF kind = "other" THEN OTHER_TRACK ELSE OWN_TRACK,
           ts     |-> (i - 1) * TICKS_PER_PACKET,
           decode |-> IF kind = "other" THEN "ok" ELSE kind,
           buf    |-> IF i % 2 = 1 THEN << <<i>> >> ELSE << <<i>>, <<i + 10>> >> ]

\* The file whose events have the given kinds.
File(kinds, n_frames, sample_rate, time_base) ==
    [ stream      |-> [ i \in 1..Len(kinds) |-> Event(kinds[i], i) ],
      track_id    |-> OWN_TRACK,
      n_frames    |-> n_frames,
      sample_rate |-> sample_rate,
      time_base   |-> time_base ]

RECURSIVE SeqsUpTo(_, _)
\* All sequences over S of length at most n.
SeqsUpTo(S, n) ==
    IF n = 0 THEN { << >> }
    ELSE LET shorter == SeqsUpTo(S, n - 1)
         IN  shorter \cup { Append(q, x) : q \in shorter, x \in S }

\* codec_params.n_frames of the modelled files: unknown, and 50, 100, 101
\* and 400 ms at 44100 Hz.
FrameCounts == { None, Some(2205), Some(4410), Some(4455), Some(17640) }

\* The requested seek positions.
SeekVals == {0, 50, 150, 301, 1000}

\* tb.calc_time(ts) followed by seconds * 1000 + (frac * 1000.0) as u64
TimestampMs(ts, tb) == (ts \div tb) * 1000 + ((ts % tb) * 1000) \div tb

\* AudioDecoder::new on an opened, probed file
AudioDecoderNew(t, f) ==
    LET rate == IF f.sample_rate.some THEN f.sample_rate.val ELSE DEFAULT_SAMPLE_RATE
    IN  [ track               |-> t,
          idx                 |-> 1,
          codec               |-> "clean",
          track_id            |-> f.track_id,
          sample_rate         |-> rate,
          duration_ms         |-> IF f.n_frames.some
                                  THEN (f.n_frames.val * 1000) \div rate
                                  ELSE 0,
          current_position_ms |-> 0 ]

\* convert_to_stereo_f32 / convert_buffer_to_f32: interleave a channel pair
RECURSIVE Interleave(_, _)
Interleave(left, right) ==
    IF left = << >> THEN << >>
    ELSE << Head(left), Head(right) >> \o Interleave(Tail(left), Tail(right))

ConvertToStereo(buf) ==
    IF Len(buf) = 1 THEN Interleave(buf[1], buf[1])
    ELSE IF Len(buf) >= 2 THEN Interleave(buf[1], buf[2])
    ELSE << >>

TerminalChunkUnmarked(d) ==
    [ samples     |-> << >>,
      sample_rate |-> d.sample_rate,
      position_ms |-> d.current_position_ms,
      duration_ms |-> d.duration_ms,
      is_end      |-> FALSE ]

\* The chunk returned at end of stream.
TerminalChunk(d) ==
    [ samples     |-> << >>,
      sample_rate |-> d.sample_rate,
      position_ms |-> d.current_position_ms,
      duration_ms |-> d.duration_ms,
      is_end      |-> TRUE ]

\* The chunk built from a decoded packet.
PacketChunk(d, samples) ==
    [ samples     |-> samples,
      sample_rate |-> d.sample_rate,
      position_ms |-> d.current_position_ms,
      duration_ms |-> d.duration_ms,
      is_end      |-> FALSE ]

RECURSIVE DecodeFrom(_, _, _)

CorruptSurfaces(d, f, resets) ==
    [ dec |-> [d EXCEPT !.codec = "failed"],
      ret |-> [tag |-> "Err", msg |-> "Decode error"],
      resets |-> resets ]

\* The DecodeError arm of decode_next_chunk: self.decoder.reset(), then
\* return self.decode_next_chunk().
CorruptSkipped(d, f, resets) ==
    DecodeFrom([d EXCEPT !.codec = "clean"], f, resets + 1)

\* AudioDecoder::decode_next_chunk, with the number of codec resets made so
\* far in this call.  The result is the decoder after the call, the value
\* returned and the resets made.
DecodeFrom(d, f, resets) ==
    IF d.idx > Len(f.stream)
    THEN [ dec |-> d, ret |-> [tag |-> "Ok", chunk |-> TerminalChunk(d)],
           resets |-> resets ]
    ELSE
        LET packet == f.stream[d.idx]
            d1     == [d EXCEPT !.idx = @ + 1]
        IN  IF packet.kind = "ioerr"
            THEN [ dec |-> d1, ret |-> [tag |-> "Err", msg |-> "Error reading packet"],
                   resets |-> resets ]
            ELSE IF packet.track # d.track_id
            THEN DecodeFrom(d1, f, resets)
            ELSE IF packet.decode = "corrupt"
            THEN CorruptSkipped(d1, f, resets)
            ELSE IF packet.decode = "fatal"
            THEN [ dec |-> [d1 EXCEPT !.codec = "failed"],
                   ret |-> [tag |-> "Err", msg |-> "Decode error"],
                   resets |-> resets ]
            ELSE
                LET d2 == [d1 EXCEPT
                             !.codec = "running",
                             !.current_position_ms =
                                 IF f.time_base.some
                                 THEN TimestampMs(packet.ts, f.time_base.val)
                                 ELSE @]
                IN  [ dec |-> d2,
                      ret |-> [tag |-> "Ok",
                               chunk |-> PacketChunk(d2, ConvertToStereo(packet.buf))],
                      resets |-> resets ]

decode_next_chunk(d, f) == DecodeFrom(d, f, 0)

ClampNoMargin(position_ms, duration_ms) ==
    IF duration_ms > 0
    THEN IF position_ms < duration_ms THEN position_ms ELSE duration_ms
    ELSE position_ms

\* clamped_position of AudioDecoder::seek
ClampedPosition(position_ms, duration_ms) ==
    IF duration_ms > 0
    THEN LET margin_ms == MARGIN_MS
             max_seek_position == IF duration_ms > margin_ms
                                  THEN duration_ms - margin_ms
                                  ELSE 0
         IN  IF position_ms < max_seek_position THEN position_ms ELSE max_seek_position
    ELSE position_ms

\* format_reader.seek(SeekMode::Accurate, SeekTo::Time): the reader resumes
\* at the last packet of the track that starts at or before the time, or at
\* the start of the file when there is none.
ReaderSeek(f, ms) ==
    LET at == { i \in 1..Len(f.stream) :
                  /\ f.stream[i].kind = "packet"
                  /\ f.stream[i].track = f.track_id
                  /\ f.time_base.some
                  /\ TimestampMs(f.stream[i].ts, f.time_base.val) <= ms }
    IN  IF at = {} THEN 1 ELSE CHOOSE i \in at : \A j \in at : j <= i

\* AudioDecoder::seek; reader_ok is whether format_reader.seek succeeds.
seek(d, f, position_ms, reader_ok) ==
    LET clamped_position == ClampedPosition(position_ms, d.duration_ms)
    IN  IF ~reader_ok
        THEN [ dec |-> d, ret |-> [tag |-> "Err", msg |-> "Seek error"] ]
        ELSE [ dec |-> [d EXCEPT !.idx = ReaderSeek(f, clamped_position),
                                 !.codec = "clean",
                                 !.current_position_ms = clamped_position],
               ret |-> [tag |-> "Ok"] ]

\* ---- the decoder driven directly: one file, decode and seek calls ----

DecoderInit ==
    /\ bphase = "off"
    /\ wf = [points |-> << >>, sample_rate |-> 0, duration_ms |-> <<0, 0>>]
    /\ blob = << >>
    /\ restored = NoResult
    /\ \E kinds \in SeqsUpTo(EventKinds, MaxStream), n \in FrameCounts,
          tb \in {None, Some(DEFAULT_SAMPLE_RATE)} :
          /\ files = << File(kinds, n, Some(DEFAULT_SAMPLE_RATE), tb) >>
          /\ decoder = Some(AudioDecoderNew(1, files[1]))
    /\ call = [op |-> "none"]
    /\ PlaybackOff

\* decoder.decode_next_chunk()
DecoderDecode ==
    /\ decoder.some
    /\ LET r == decode_next_chunk(decoder.val, files[decoder.val.track])
       IN  /\ decoder' = Some(r.dec)
           /\ call' = [ op |-> "decode", before |-> decoder.val,
                        ret |-> r.ret, resets |-> r.resets ]
    /\ UNCHANGED files
    /\ UNCHANGED nonDecVars

\* decoder.seek(position_ms)
DecoderSeek(position_ms, reader_ok) ==
    /\ decoder.some
    /\ LET r == seek(decoder.val, files[decoder.val.track], position_ms, reader_ok)
       IN  /\ decoder' = Some(r.dec)
           /\ call' = [ op |-> "seek", before |-> decoder.val,
                        position_ms |-> position_ms, ret |-> r.ret ]
    /\ UNCHANGED files
    /\ UNCHANGED nonDecVars

DecoderNext ==
    \/ DecoderDecode
    \/ \E p \in SeekVals, ok \in BOOLEAN : DecoderSeek(p, ok)

SpecDecoder == DecoderInit /\ [][DecoderNext]_vars

\* ---- claims about the decoder ----

\* C8: a successful seek(p) on a decoder of known duration d > 0 leaves
\* current_position_ms = min(p, d - 100) when d > 100 and 0 when d <= 100,
\* hence within [0, max(d - 100, 0)], and the codec has been reset.
C8_SeekClamps ==
    (call.op = "seek" /\ call.ret.tag = "Ok" /\ call.before.duration_ms > 0) =>
        LET d   == call.before.duration_ms
            p   == call.position_ms
            pos == decoder.val.current_position_ms
        IN  /\ d > 100  => pos = IF p <= d - 100 THEN p ELSE d - 100
            /\ d <= 100 => pos = 0
            /\ 0 <= pos
            /\ pos <= IF d > 100 THEN d - 100 ELSE 0
            /\ decoder.val.codec = "clean"

\* A seek beyond duration - 100 succeeded on a decoder whose codec had
\* decoded or failed before.
C8_Witness ==
    /\ call.op = "seek"
    /\ call.ret.tag = "Ok"
    /\ call.before.duration_ms > 100
    /\ call.position_ms > call.before.duration_ms - 100
    /\ call.before.codec # "clean"

\* Event i of file f is passed over by decode_next_chunk: a packet of
\* another track, or a packet of the track that fails with DecodeError.
PassedOver(f, i) ==
    /\ f.stream[i].kind = "packet"
    /\ \/ f.stream[i].track # f.track_id
       \/ f.stream[i].decode = "corrupt"

\* The first event at or after i0 that is not passed over; Len + 1 when the
\* stream ends first.
StopsAt(f, i0) ==
    LET rest == { i \in i0..Len(f.stream) : ~PassedOver(f, i) }
    IN  IF rest = {} THEN Len(f.stream) + 1
        ELSE CHOOSE i \in rest : \A k \in rest : i <= k

\* The corrupt packets of the track among events i0..j-1.
CorruptIn(f, i0, j) ==
    { i \in i0..(j - 1) : f.stream[i].track = f.track_id /\ f.stream[i].decode = "corrupt" }

\* C9: decode_next_chunk returns Err only for a read error or a codec error
\* other than DecodeError; each corrupt packet met costs one codec reset and
\* the call goes on to the next packet, returning the chunk of the first
\* packet that decodes or the terminal chunk at end of stream; the skipped
\* packets leave current_position_ms alone.
C9_CorruptSkipped ==
    call.op = "decode" =>
        LET f   == files[call.before.track]
            i0  == call.before.idx
            j   == StopsAt(f, i0)
            n   == Len(f.stream)
            now == decoder.val
        IN  /\ call.resets = Cardinality(CorruptIn(f, i0, j))
            /\ call.ret.tag = "Err" =>
                  /\ j <= n
                  /\ \/ f.stream[j].kind = "ioerr"
                     \/ f.stream[j].decode = "fatal"
                  /\ now.current_position_ms = call.before.current_position_ms
            /\ j > n =>
                  /\ call.ret.tag = "Ok"
                  /\ call.ret.chunk.is_end
                  /\ now.current_position_ms = call.before.current_position_ms
            /\ (j <= n /\ f.stream[j].kind = "packet" /\ f.stream[j].decode = "ok") =>
                  /\ call.ret.tag = "Ok"
                  /\ ~call.ret.chunk.is_end
                  /\ call.ret.chunk.samples # << >>
                  /\ call.ret.chunk.samples[1] = j
                  /\ now.current_position_ms =
                        IF f.time_base.some THEN (j - 1) * 100
                        ELSE call.before.current_position_ms
                  /\ call.ret.chunk.position_ms = now.current_position_ms

\* A call skipped a corrupt packet and returned the chunk of a later one.
C9_Witness ==
    /\ call.op = "decode"
    /\ call.resets >= 1
    /\ call.ret.tag = "Ok"
    /\ ~call.ret.chunk.is_end

(***************************************************************************)
(*                 Playback commands (commands/playback.rs)                *)
(*                                                                         *)
(* Every tauri command runs as its own task, concurrently with the others  *)
(* and with the decode loops that play spawned.  A step of the model is    *)
(* one std::sync::Mutex acquisition together with the code that follows it *)
(* up to the next acquisition; the sleeps of the code are the gaps between *)
(* two steps.  A mutex held across a later acquisition (load_track, stop)  *)
(* or across a decoder call stays owned between the steps.                 *)
(***************************************************************************)

\* Bounds of the playback model.
MaxCmds == 2
MaxLoops == 2
MaxGen == 2
MaxRun == 21

\* MAX_CONSECUTIVE_ERRORS of the spawned loop
MAX_CONSECUTIVE_ERRORS == 20

\* Positions the frontend seeks to.
PlaySeekVals == {0, 1000}

IdleCmd == [pc |-> "idle", arg |-> 0]

\* The task play spawns, at the top of its loop with the generation it
\* captured.  The tasks are anonymous: `loop` is the bag of the running ones.
NewLoop(current_generation) ==
    [ pc |-> "check_gen", gen |-> current_generation, consecutive_errors |-> 0,
      errRun |-> 0,            \* Err results since the last Ok result
      staleDecodes |-> 0,      \* decode calls made after the generation moved on
      staleChunks |-> 0,       \* audio-chunk events emitted after it moved on
      chunk_result |-> NoResult,   \* what decode_next_chunk last returned
      \* observations of the loop, not program state:
      atEnd |-> FALSE,         \* the call was made on an exhausted stream
      posBefore |-> 0,         \* current_position_ms before the call, if atEnd
      lastEmit |-> "none" ]    \* the event emitted in this iteration

LockAlways(m) == TRUE

\* Mutex::lock returns once nobody holds the mutex.
CanLock(m) == mutex[m] = Free

\* The mutexes `who` holds are released when its guards go out of scope.
ReleaseAll(who) == [ m \in DOMAIN mutex |-> IF mutex[m] = who THEN Free ELSE mutex[m] ]

GenerationIgnored(captured, current) == FALSE

\* `*gen != current_generation` of the loop
GenerationChanged(captured, current) == current # captured

ErrorCapExceeded(n) == n > MAX_CONSECUTIVE_ERRORS

\* `consecutive_errors >= MAX_CONSECUTIVE_ERRORS` of the loop
ErrorCapReached(n) == n >= MAX_CONSECUTIVE_ERRORS

\* A new invocation runs as the first idle command: which one it is called
\* is not program state.
Starts(c) ==
    /\ cmd[c] = IdleCmd
    /\ \A k \in 1..(c - 1) : cmd[k] # IdleCmd

\* The bag of loops after the task in state lp has taken a step to state to.
Moved(lp, to) == (loop (-) SetToBag({lp})) (+) SetToBag({to})

\* The tasks running or about to be spawned.
Tasks == BagCardinality(loop) + Cardinality({ k \in DOMAIN cmd : cmd[k].pc = "play_spawn" })

\* ---- load_track ----

\* load_track: under the database lock, held to the end, the track is fetched
\* and its decoder created; then `*gen += 1`.
LoadTrackBump(c, t) ==
    /\ Starts(c)
    /\ t \in DOMAIN files
    /\ task_generation < MaxGen
    /\ CanLock("db")
    /\ CanLock("task_generation")
    /\ mutex' = [mutex EXCEPT !["db"] = Cmd(c)]
    /\ task_generation' = task_generation + 1
    /\ cmd' = [cmd EXCEPT ![c] = [pc |-> "lt_decoder", arg |-> t]]
    /\ UNCHANGED <<is_playing, current_track_id, loop, limits, decVars>>
    /\ UNCHANGED blobVars

\* load_track: `*decoder_lock = Some(decoder)`; the guard lives to the end.
LoadTrackStore(c) ==
    /\ cmd[c].pc = "lt_decoder"
    /\ CanLock("decoder")
    /\ mutex' = [mutex EXCEPT !["decoder"] = Cmd(c)]
    /\ decoder' = Some(AudioDecoderNew(cmd[c].arg, files[cmd[c].arg]))
    /\ cmd' = [cmd EXCEPT ![c].pc = "lt_track_id"]
    /\ UNCHANGED <<is_playing, current_track_id, task_generation, loop, limits, files, call>>
    /\ UNCHANGED blobVars

\* load_track: `*track_id_lock = Some(track_id)`; the guard lives to the end.
LoadTrackSetId(c) ==
    /\ cmd[c].pc = "lt_track_id"
    /\ CanLock("current_track_id")
    /\ mutex' = [mutex EXCEPT !["current_track_id"] = Cmd(c)]
    /\ current_track_id' = Some(cmd[c].arg)
    /\ cmd' = [cmd EXCEPT ![c].pc = "lt_is_playing"]
    /\ UNCHANGED <<is_playing, task_generation, loop, limits, decVars>>
    /\ UNCHANGED blobVars

\* load_track: `*is_playing_lock = false` and return, dropping the guards.
LoadTrackFinish(c) ==
    /\ cmd[c].pc = "lt_is_playing"
    /\ CanLock("is_playing")
    /\ is_playing' = FALSE
    /\ mutex' = ReleaseAll(Cmd(c))
    /\ cmd' = [cmd EXCEPT ![c] = IdleCmd]
    /\ UNCHANGED <<current_track_id, task_generation, loop, limits, decVars>>
    /\ UNCHANGED blobVars

\* ---- play / resume (resume calls play) ----

\* play, and resume, which only calls play: `*is_playing = true`.
PlaySet(c) ==
    /\ Starts(c)
    /\ Tasks < limits.loops
    /\ CanLock("is_playing")
    /\ is_playing' = TRUE
    /\ cmd' = [cmd EXCEPT ![c] = [pc |-> "play_spawn", arg |-> 0]]
    /\ UNCHANGED <<current_track_id, task_generation, mutex, loop, limits, decVars>>
    /\ UNCHANGED blobVars

\* play: capture the current generation and task::spawn the loop.
PlaySpawn(c) ==
    /\ cmd[c].pc = "play_spawn"
    /\ CanLock("task_generation")
    /\ loop' = loop (+) SetToBag({NewLoop(task_generation)})
    /\ cmd' = [cmd EXCEPT ![c] = [pc |-> "status_is_playing", arg |-> 0]]
    /\ UNCHANGED <<is_playing, current_track_id, task_generation, mutex, limits, decVars>>
    /\ UNCHANGED blobVars

\* ---- pause ----

\* pause: `*is_playing = false`.
PauseSet(c) ==
    /\ Starts(c)
    /\ CanLock("is_playing")
    /\ is_playing' = FALSE
    /\ cmd' = [cmd EXCEPT ![c] = [pc |-> "status_is_playing", arg |-> 0]]
    /\ UNCHANGED <<current_track_id, task_generation, mutex, loop, limits, decVars>>
    /\ UNCHANGED blobVars

\* ---- seek ----

\* seek: `*gen += 1`; the 50 ms sleep follows.
SeekBump(c, position_ms) ==
    /\ Starts(c)
    /\ task_generation < MaxGen
    /\ CanLock("task_generation")
    /\ task_generation' = task_generation + 1
    /\ cmd' = [cmd EXCEPT ![c] = [pc |-> "seek_lock", arg |-> position_ms]]
    /\ UNCHANGED <<is_playing, current_track_id, mutex, loop, limits, decVars>>
    /\ UNCHANGED blobVars

\* seek: playback_state.decoder.lock()
SeekLock(c) ==
    /\ cmd[c].pc = "seek_lock"
    /\ CanLock("decoder")
    /\ mutex' = [mutex EXCEPT !["decoder"] = Cmd(c)]
    /\ cmd' = [cmd EXCEPT ![c].pc = "seeking"]
    /\ UNCHANGED <<is_playing, current_track_id, task_generation, loop, limits, decVars>>
    /\ UNCHANGED blobVars

\* seek: decoder.seek(position_ms)? under the lock; an Err returns at once.
SeekRun(c, reader_ok) ==
    /\ cmd[c].pc = "seeking"
    /\ mutex' = ReleaseAll(Cmd(c))
    /\ IF decoder.some
       THEN LET r == seek(decoder.val, files[decoder.val.track], cmd[c].arg, reader_ok)
            IN  /\ decoder' = Some(r.dec)
                /\ cmd' = [cmd EXCEPT ![c] =
                              IF r.ret.tag = "Err" THEN IdleCmd
                              ELSE [pc |-> "status_is_playing", arg |-> 0]]
       ELSE /\ reader_ok
            /\ cmd' = [cmd EXCEPT ![c] = [pc |-> "status_is_playing", arg |-> 0]]
            /\ UNCHANGED decoder
    /\ UNCHANGED <<is_playing, current_track_id, task_generation, loop, limits, files, call>>
    /\ UNCHANGED blobVars

\* ---- stop ----

\* stop: `*is_playing = false`; the guard lives to the end.
StopSet(c) ==
    /\ Starts(c)
    /\ CanLock("is_playing")
    /\ mutex' = [mutex EXCEPT !["is_playing"] = Cmd(c)]
    /\ is_playing' = FALSE
    /\ cmd' = [cmd EXCEPT ![c] = [pc |-> "stop_decoder", arg |-> 0]]
    /\ UNCHANGED <<current_track_id, task_generation, loop, limits, decVars>>
    /\ UNCHANGED blobVars

\* stop: `*decoder_lock = None`; the guard lives to the end.
StopUnload(c) ==
    /\ cmd[c].pc = "stop_decoder"
    /\ CanLock("decoder")
    /\ mutex' = [mutex EXCEPT !["decoder"] = Cmd(c)]
    /\ decoder' = None
    /\ cmd' = [cmd EXCEPT ![c].pc = "stop_track_id"]
    /\ UNCHANGED <<is_playing, current_track_id, task_generation, loop, limits, files, call>>
    /\ UNCHANGED blobVars

\* stop: `*track_id_lock = None` and return, dropping the guards.
StopFinish(c) ==
    /\ cmd[c].pc = "stop_track_id"
    /\ CanLock("current_track_id")
    /\ current_track_id' = None
    /\ mutex' = ReleaseAll(Cmd(c))
    /\ cmd' = [cmd EXCEPT ![c] = IdleCmd]
    /\ UNCHANGED <<is_playing, task_generation, loop, limits, decVars>>
    /\ UNCHANGED blobVars

\* ---- get_playback_status (a command, and the tail of play, pause, seek) ----

\* get_playback_status called by the frontend: read is_playing.
StatusCall(c) ==
    /\ Starts(c)
    /\ CanLock("is_playing")
    /\ cmd' = [cmd EXCEPT ![c] = [pc |-> "status_track_id", arg |-> 0]]
    /\ UNCHANGED <<is_playing, current_track_id, task_generation, mutex, loop, limits, decVars>>
    /\ UNCHANGED blobVars

\* get_playback_status as the tail of a command: read is_playing.
StatusIsPlaying(c) ==
    /\ cmd[c].pc = "status_is_playing"
    /\ CanLock("is_playing")
    /\ cmd' = [cmd EXCEPT ![c].pc = "status_track_id"]
    /\ UNCHANGED <<is_playing, current_track_id, task_generation, mutex, loop, limits, decVars>>
    /\ UNCHANGED blobVars

\* get_playback_status: read current_track_id.
StatusTrackId(c) ==
    /\ cmd[c].pc = "status_track_id"
    /\ CanLock("current_track_id")
    /\ cmd' = [cmd EXCEPT ![c].pc = "status_decoder"]
    /\ UNCHANGED <<is_playing, current_track_id, task_generation, mutex, loop, limits, decVars>>
    /\ UNCHANGED blobVars

\* get_playback_status: read the decoder's position, duration and rate; return.
StatusDecoder(c) ==
    /\ cmd[c].pc = "status_decoder"
    /\ CanLock("decoder")
    /\ cmd' = [cmd EXCEPT ![c] = IdleCmd]
    /\ UNCHANGED <<is_playing, current_track_id, task_generation, mutex, loop, limits, decVars>>
    /\ UNCHANGED blobVars

\* ---- the loop spawned by play ----

\* A loop at the top of an iteration: chunk_result is out of scope, and what
\* was observed of the last iteration is dropped.
ThisIteration(lp) ==
    [lp EXCEPT !.chunk_result = NoResult, !.atEnd = FALSE, !.posBefore = 0,
               !.lastEmit = "none"]

\* loop: the generation check at the top of each iteration.
LoopCheckGeneration(lp) ==
    /\ lp \in BagToSet(loop)
    /\ lp.pc = "check_gen"
    /\ CanLock("task_generation")
    /\ loop' = Moved(lp, [ThisIteration(lp) EXCEPT !.pc =
                                 IF GenerationChanged(lp.gen, task_generation)
                                 THEN "exit" ELSE "check_playing"])
    /\ UNCHANGED <<is_playing, current_track_id, task_generation, mutex, cmd, limits, decVars>>
    /\ UNCHANGED blobVars

\* loop: `if !is_playing { break; }`
LoopCheckPlaying(lp) ==
    /\ lp \in BagToSet(loop)
    /\ lp.pc = "check_playing"
    /\ CanLock("is_playing")
    /\ loop' = Moved(lp, [lp EXCEPT !.pc = IF is_playing THEN "lock_decoder" ELSE "exit"])
    /\ UNCHANGED <<is_playing, current_track_id, task_generation, mutex, cmd, limits, decVars>>
    /\ UNCHANGED blobVars

\* loop: decoder_arc.lock()
LoopLockDecoder(lp) ==
    /\ lp \in BagToSet(loop)
    /\ lp.pc = "lock_decoder"
    /\ CanLock("decoder")
    /\ mutex' = [mutex EXCEPT !["decoder"] = LoopTask]
    /\ loop' = Moved(lp, [lp EXCEPT !.pc = "decoding"])
    /\ UNCHANGED <<is_playing, current_track_id, task_generation, cmd, limits, decVars>>
    /\ UNCHANGED blobVars

\* loop: decode_next_chunk under the lock, then the match on its result up
\* to the sleep or the break.  emit_ok is whether app.emit succeeds.
LoopDecode(lp, emit_ok) ==
    /\ lp \in BagToSet(loop)
    /\ lp.pc = "decoding"
    /\ mutex' = ReleaseAll(LoopTask)
    /\ IF ~decoder.some
       THEN /\ emit_ok
            /\ loop' = Moved(lp, [lp EXCEPT !.pc = "exit"])
            /\ UNCHANGED decoder
       ELSE LET r     == decode_next_chunk(decoder.val, files[decoder.val.track])
                stale == lp.gen # task_generation
                f     == files[decoder.val.track]
                atEnd == \A i \in decoder.val.idx..Len(f.stream) :
                            /\ f.stream[i].kind = "packet"
                            /\ \/ f.stream[i].track # f.track_id
                               \/ f.stream[i].decode = "corrupt"
                seen  == [lp EXCEPT
                            !.chunk_result = r.ret,
                            !.atEnd = atEnd,
                            !.posBefore = IF atEnd THEN decoder.val.current_position_ms ELSE 0,
                            !.staleDecodes = @ + (IF stale THEN 1 ELSE 0),
                            !.errRun = IF r.ret.tag = "Err" THEN @ + 1 ELSE 0]
            IN  /\ decoder' = Some(r.dec)
                /\ IF r.ret.tag = "Err"
                   THEN /\ emit_ok
                        /\ loop' = Moved(lp, [seen EXCEPT !.pc = "error_position",
                                                             !.consecutive_errors = @ + 1])
                   ELSE IF r.ret.chunk.is_end
                   THEN /\ emit_ok
                        /\ loop' = Moved(lp, [seen EXCEPT !.pc = "exit",
                                                             !.consecutive_errors = 0,
                                                             !.lastEmit = "audio-ended"])
                   ELSE IF emit_ok
                   THEN loop' = Moved(lp, [seen EXCEPT
                                              !.pc = "check_gen",
                                              !.consecutive_errors = 0,
                                              !.staleChunks = @ + (IF stale THEN 1 ELSE 0),
                                              !.lastEmit = "audio-chunk"])
                   ELSE loop' = Moved(lp, [seen EXCEPT !.pc = "exit",
                                                        !.consecutive_errors = 0])
    /\ UNCHANGED <<is_playing, current_track_id, task_generation, cmd, limits, files, call>>
    /\ UNCHANGED blobVars

\* loop, Err arm: read the position for the log, then give up at the cap or
\* sleep and retry.
LoopErrorPosition(lp) ==
    /\ lp \in BagToSet(loop)
    /\ lp.pc = "error_position"
    /\ CanLock("decoder")
    /\ loop' = Moved(lp, IF ErrorCapReached(lp.consecutive_errors)
                          THEN [lp EXCEPT !.pc = "exit", !.lastEmit = "audio-error"]
                          ELSE [lp EXCEPT !.pc = "check_gen"])
    /\ UNCHANGED <<is_playing, current_track_id, task_generation, mutex, cmd, limits, decVars>>
    /\ UNCHANGED blobVars

\* loop: after the break, `*is_playing = false`; the task ends.
LoopExit(lp) ==
    /\ lp \in BagToSet(loop)
    /\ lp.pc = "exit"
    /\ CanLock("is_playing")
    /\ is_playing' = FALSE
    /\ loop' = loop (-) SetToBag({lp})
    /\ UNCHANGED <<current_track_id, task_generation, mutex, cmd, limits, decVars>>
    /\ UNCHANGED blobVars

PlaybackNext ==
    \/ \E c \in 1..limits.cmds : \E t \in DOMAIN files : LoadTrackBump(c, t)
    \/ \E c \in 1..limits.cmds : LoadTrackStore(c)
    \/ \E c \in 1..limits.cmds : LoadTrackSetId(c)
    \/ \E c \in 1..limits.cmds : LoadTrackFinish(c)
    \/ \E c \in 1..limits.cmds : PlaySet(c)
    \/ \E c \in 1..limits.cmds : PlaySpawn(c)
    \/ \E c \in 1..limits.cmds : PauseSet(c)
    \/ \E c \in 1..limits.cmds : \E p \in PlaySeekVals : SeekBump(c, p)
    \/ \E c \in 1..limits.cmds : SeekLock(c)
    \/ \E c \in 1..limits.cmds : \E ok \in BOOLEAN : SeekRun(c, ok)
    \/ \E c \in 1..limits.cmds : StopSet(c)
    \/ \E c \in 1..limits.cmds : StopUnload(c)
    \/ \E c \in 1..limits.cmds : StopFinish(c)
    \/ \E c \in 1..limits.cmds : StatusCall(c)
    \/ \E c \in 1..limits.cmds : StatusIsPlaying(c)
    \/ \E c \in 1..limits.cmds : StatusTrackId(c)
    \/ \E c \in 1..limits.cmds : StatusDecoder(c)
    \/ \E lp \in BagToSet(loop) : LoopCheckGeneration(lp)
    \/ \E lp \in BagToSet(loop) : LoopCheckPlaying(lp)
    \/ \E lp \in BagToSet(loop) : LoopLockDecoder(lp)
    \/ \E lp \in BagToSet(loop) : \E emit_ok \in BOOLEAN : LoopDecode(lp, emit_ok)
    \/ \E lp \in BagToSet(loop) : LoopErrorPosition(lp)
    \/ \E lp \in BagToSet(loop) : LoopExit(lp)

\* PlaybackState::new with n command invocations and m spawned tasks at a time.
PlaybackNew(n, m) ==
    /\ is_playing = FALSE
    /\ current_track_id = None
    /\ task_generation = 0
    /\ mutex = AllFree
    /\ decoder = None
    /\ call = [op |-> "none"]
    /\ cmd = [ c \in 1..n |-> IdleCmd ]
    /\ loop = EmptyBag
    /\ limits = [cmds |-> n, loops |-> m]

BlobOff ==
    /\ bphase = "off"
    /\ wf = [points |-> << >>, sample_rate |-> 0, duration_ms |-> <<0, 0>>]
    /\ blob = << >>
    /\ restored = NoResult

\* Concurrent commands on a library of one short file with a read error in
\* it: MaxCmds commands at a time with one loop, or one command at a time
\* with MaxLoops loops.
Init ==
    /\ BlobOff
    /\ files = << File(<<"ok", "ioerr">>, Some(17640), Some(DEFAULT_SAMPLE_RATE),
                       Some(DEFAULT_SAMPLE_RATE)) >>
    /\ \/ PlaybackNew(MaxCmds, 1)
       \/ PlaybackNew(1, MaxLoops)

Next == PlaybackNext

Spec == Init /\ [][Next]_vars

\* The kinds of a file with a decodable packet, a failures, a decodable
\* packet, b failures and a corrupt packet; the failures alternate between
\* read errors and codec errors other than DecodeError.
RunKinds(a, b) ==
    [ i \in 1..(a + b + 3) |->
        IF i = 1 \/ i = a + 2 THEN "ok"
        ELSE IF i = a + b + 3 THEN "corrupt"
        ELSE IF i % 2 = 0 THEN "ioerr" ELSE "fatal" ]

\* The lengths of the first run: at most one failure, or one less than the
\* cap and more.
RunSplits == { a \in 0..MaxRun : a <= 1 \/ a >= MAX_CONSECUTIVE_ERRORS - 1 }

\* One command at a time and one loop, on a file with two runs of failures
\* of MaxRun events together (5 s of audio by its header).
SeqInit ==
    /\ BlobOff
    /\ \E a \in RunSplits :
          files = << File(RunKinds(a, MaxRun - a), Some(220500),
                          Some(DEFAULT_SAMPLE_RATE), Some(DEFAULT_SAMPLE_RATE)) >>
    /\ PlaybackNew(1, 1)

SpecSeq == SeqInit /\ [][Next]_vars

(***************************************************************************)
(*                     Properties of the playback loop                     *)
(***************************************************************************)

\* The number of running loops that satisfy P.
LoopsWhere(P(_)) ==
    BagCardinality([ lp \in { x \in BagToSet(loop) : P(x) } |-> loop[lp] ])

\* The loop has a result of decode_next_chunk in hand.
Pulled(lp) == lp.chunk_result.tag # "none"

PulledNow(lp) == lp.gen = task_generation /\ Pulled(lp)

\* C1: two loops never pull chunks from the same decoder under the same
\* generation: of the loops that captured the current generation, at most
\* one has taken a result from decode_next_chunk.  play and resume leave
\* task_generation alone, so a second play adds a loop of the same
\* generation and the property fails.
C1_OneLoopPerGeneration == LoopsWhere(PulledNow) <= 1

\* C2: a loop whose generation is no longer the current one makes at most
\* one further decode_next_chunk call and emits at most one further
\* audio-chunk, and it is never found past a generation check after such a
\* call: the check that follows the call ends it.
C2_BoundedCancellation ==
    \A lp \in BagToSet(loop) :
        /\ lp.staleDecodes <= 1
        /\ lp.staleChunks <= lp.staleDecodes
        /\ lp.staleDecodes = 1 => lp.pc \in {"check_gen", "error_position", "exit"}

\* A loop that outlived its generation has made its one further call and
\* emitted its one further chunk.
C2_Witness ==
    \E lp \in BagToSet(loop) :
        /\ lp.gen # task_generation
        /\ lp.staleDecodes = 1
        /\ lp.staleChunks = 1
        /\ lp.pc = "check_gen"

\* The loop is between decoder_arc.lock() and the end of decode_next_chunk.
Decoding(lp) == lp.pc = "decoding"

\* The commands that hold the decoder's guard: seek up to the end of
\* AudioDecoder::seek, load_track from the replacement to its return, stop
\* from the removal to its return.
CmdsInDecoder ==
    { c \in DOMAIN cmd : cmd[c].pc \in {"seeking", "lt_track_id", "lt_is_playing",
                                         "stop_track_id"} }

\* The commands and loops waiting for the decoder's mutex.
CmdsAtDecoder ==
    { c \in DOMAIN cmd : cmd[c].pc \in {"seek_lock", "lt_decoder", "stop_decoder",
                                         "status_decoder"} }

\* C7: of decode_next_chunk in a loop, AudioDecoder::seek, the replacement
\* of the decoder by load_track and its removal by stop, at most one is in
\* progress at a time, and the one in progress owns the decoder's mutex.
C7_MutualExclusion ==
    /\ LoopsWhere(Decoding) + Cardinality(CmdsInDecoder) <= 1
    /\ LoopsWhere(Decoding) = 1 => mutex["decoder"] = LoopTask
    /\ \A c \in CmdsInDecoder : mutex["decoder"] = Cmd(c)

\* A loop is inside decode_next_chunk while a command or another loop waits
\* for the decoder.
C7_Witness ==
    /\ LoopsWhere(Decoding) = 1
    /\ \/ CmdsAtDecoder # {}
       \/ \E lp \in BagToSet(loop) : lp.pc = "lock_decoder"

\* C6: the loop gives up with audio-error exactly at the 20th Err in a row:
\* the counter is the number of Err results since the last Ok result, it
\* never passes 20, a loop that leaves from the Err arm has counted 20 and
\* emitted audio-error, and a loop that has counted 20 goes nowhere but out.
C6_AbortAtCap ==
    \A lp \in BagToSet(loop) :
        /\ lp.consecutive_errors = lp.errRun
        /\ lp.errRun <= MAX_CONSECUTIVE_ERRORS
        /\ lp.lastEmit = "audio-error" <=>
              (lp.pc = "exit" /\ Pulled(lp) /\ lp.chunk_result.tag = "Err")
        /\ lp.lastEmit = "audio-error" => lp.errRun = MAX_CONSECUTIVE_ERRORS
        /\ lp.errRun = MAX_CONSECUTIVE_ERRORS => lp.pc \in {"error_position", "exit"}

\* The loop has given up after 20 failures that followed a chunk.
C6_Witness ==
    \E lp \in BagToSet(loop) :
        /\ lp.pc = "exit"
        /\ lp.lastEmit = "audio-error"
        /\ lp.errRun = MAX_CONSECUTIVE_ERRORS
        /\ decoder.some /\ decoder.val.idx > MAX_CONSECUTIVE_ERRORS + 1

Setups == {"ok", "open_failed", "probe_failed", "no_track", "codec_failed"}

SetupError(setup) ==
    CASE setup = "open_failed"  -> "Failed to open audio file"
      [] setup = "probe_failed" -> "Failed to probe audio format"
      [] setup = "no_track"     -> "No audio tracks found"
      [] setup = "codec_failed" -> "Failed to create decoder"

\* The sum over the channels of sample i, each scaled by 1 / channels.
MeanOfChannels(buf, i) ==
    LET SumAt[c \in 0..Len(buf)] == IF c = 0 THEN 0 ELSE SumAt[c - 1] + buf[c][i]
    IN  SumAt[Len(buf)] \div Len(buf)

\* convert_to_mono_f32: a mono buffer is copied, others are averaged.
ConvertToMono(buf) ==
    IF Len(buf) = 0 \/ Len(buf[1]) = 0 THEN << >>
    ELSE IF Len(buf) = 1 THEN buf[1]
    ELSE [ i \in 1..Len(buf[1]) |-> MeanOfChannels(buf, i) ]

RECURSIVE MonoFrom(_, _, _)
\* The packet loop of decode_to_mono from event i on, with the samples
\* collected so far.
MonoFrom(f, i, all_samples) ==
    IF i > Len(f.stream) THEN [tag |-> "Ok", samples |-> all_samples]
    ELSE LET e == f.stream[i]
         IN  IF e.kind = "ioerr" THEN [tag |-> "Err", msg |-> "Error reading packet"]
             ELSE IF e.track # f.track_id THEN MonoFrom(f, i + 1, all_samples)
             ELSE IF e.decode = "corrupt" THEN MonoFrom(f, i + 1, all_samples)
             ELSE IF e.decode = "fatal" THEN [tag |-> "Err", msg |-> "Decode error"]
             ELSE MonoFrom(f, i + 1, all_samples \o ConvertToMono(e.buf))

\* decode_to_mono
decode_to_mono(setup, f) ==
    IF setup # "ok" THEN [tag |-> "Err", msg |-> SetupError(setup)]
    ELSE LET sample_rate == IF f.sample_rate.some THEN f.sample_rate.val
                            ELSE DEFAULT_SAMPLE_RATE
             duration_ms == IF f.n_frames.some
                            THEN (f.n_frames.val * 1000) \div sample_rate
                            ELSE 0
             r == MonoFrom(f, 1, << >>)
         IN  IF r.tag = "Err" THEN r
             ELSE [ tag |-> "Ok",
                    audio |-> [ samples     |-> r.samples,
                                sample_rate |-> sample_rate,
                                duration_ms |-> IF sample_rate > 0
                                                THEN (Len(r.samples) * 1000) \div sample_rate
                                                ELSE duration_ms ] ]

\* No analysis call has been made; the other components are off.
AnalysisInit ==
    /\ BlobOff
    /\ files = << >>
    /\ decoder = None
    /\ PlaybackOff
    /\ call = [op |-> "none"]

\* decode_to_mono(path) on a file of the given events.  A behaviour of the
\* analysis follows one call.
DecodeToMonoCall(setup, kinds, n_frames, sample_rate) ==
    LET f == File(kinds, n_frames, sample_rate, sample_rate)
    IN  /\ call.op = "none"
        /\ call' = [ op |-> "decode_to_mono", setup |-> setup, file |-> f,
                     ret |-> decode_to_mono(setup, f) ]
        /\ UNCHANGED <<files, decoder>>
        /\ UNCHANGED blobVars
        /\ UNCHANGED playVars

\* ---- tempo estimator (bpm.rs) ----

\* HOP_SIZE of bpm.rs
HOP_SIZE == 512

\* A bpm is counted in hundredths and a confidence in thousandths.  The raw
\* estimates are even numbers of hundredths: like the f64 operations of the
\* code, doubling and halving them is exact.
BPM_SCALE == 100
CONF_SCALE == 1000

\* samples.len() of the analysed buffers
SampleCounts == {0, 1, 511, 512, 4095, 4096, 4097, 8192}

\* tempo.get_bpm() and tempo.get_confidence() of the tracker
RawBpms ==
    { -100, 0, 2, 3998, 4000, 4002, 7998, 8000, 8002, 12800, 19998, 20000,
      20002, 28000, 29998, 30000, 30002, 60000 }
RawConfidences == { -500, 0, 1, 250, 999, 1000, 1001, 5000 }

ClampBelow(x, lo, hi) == IF x < lo THEN lo ELSE x

\* f64::clamp
Clamp(x, lo, hi) == IF x < lo THEN lo ELSE IF x > hi THEN hi ELSE x

BpmNonPositive(bpm) == bpm <= 0

\* `bpm <= 0.0 || bpm < 40.0 || bpm > 300.0`
BpmUnreasonable(bpm) == bpm <= 0 \/ bpm < 40 * BPM_SCALE \/ bpm > 300 * BPM_SCALE

OctaveKept(bpm) == bpm

OctaveDoubledOnly(bpm) ==
    IF bpm >= 40 * BPM_SCALE /\ bpm < 80 * BPM_SCALE THEN bpm * 2 ELSE bpm

\* The normalisation to the 80-200 range.
OctaveCorrected(bpm) ==
    IF bpm >= 40 * BPM_SCALE /\ bpm < 80 * BPM_SCALE THEN bpm * 2
    ELSE IF bpm > 200 * BPM_SCALE /\ bpm <= 300 * BPM_SCALE THEN bpm \div 2
    ELSE bpm

\* detect_bpm_from_samples on a buffer of n_samples samples, with what the
\* tracker does: whether Tempo::new and do_result succeed, and the bpm and
\* confidence it reports.
NeverEmpty(n_samples) == FALSE

\* `audio.samples.is_empty()`
IsEmpty(n_samples) == n_samples = 0

detect_bpm_from_samples(n_samples, tempo) ==
    IF IsEmpty(n_samples) THEN [tag |-> "Err", msg |-> "No audio samples to analyze"]
    ELSE IF ~tempo.new_ok
    THEN [tag |-> "Err", msg |-> "Failed to create aubio Tempo detector"]
    ELSE IF n_samples \div HOP_SIZE > 0 /\ ~tempo.do_ok
    THEN [tag |-> "Err", msg |-> "Tempo detection error"]
    ELSE LET confidence == Clamp(tempo.confidence, 0, CONF_SCALE)
         IN  IF BpmUnreasonable(tempo.bpm)
             THEN [tag |-> "Ok", bpm |-> 0, confidence |-> 0]
             ELSE [tag |-> "Ok", bpm |-> OctaveCorrected(tempo.bpm),
                   confidence |-> confidence]

DetectBpmCall(n_samples, tempo) ==
    /\ call.op = "none"
    /\ call' = [ op |-> "detect_bpm", at |-> "returned",
                 n_samples |-> n_samples, tempo |-> tempo,
                 ret |-> detect_bpm_from_samples(n_samples, tempo) ]
    /\ UNCHANGED <<files, decoder>>
    /\ UNCHANGED blobVars
    /\ UNCHANGED playVars

\* ---- key estimator (key.rs) ----

\* FFT_SIZE of key.rs
FFT_SIZE == 4096

\* The profiles, in tenths.
SHAATH_MAJOR == <<66, 20, 35, 23, 46, 40, 25, 52, 24, 37, 23, 32>>
SHAATH_MINOR == <<65, 27, 35, 54, 26, 35, 25, 47, 40, 27, 34, 32>>

\* The notation tables; a string is the sequence of its characters.
MAJOR_NAMES ==
    << <<"C">>, <<"D", "b">>, <<"D">>, <<"E", "b">>, <<"E">>, <<"F">>,
       <<"F", "#">>, <<"G">>, <<"A", "b">>, <<"A">>, <<"B", "b">>, <<"B">> >>
MINOR_NAMES ==
    << <<"C", "m">>, <<"C", "#", "m">>, <<"D", "m">>, <<"E", "b", "m">>,
       <<"E", "m">>, <<"F", "m">>, <<"F", "#", "m">>, <<"G", "m">>,
       <<"G", "#", "m">>, <<"A", "m">>, <<"B", "b", "m">>, <<"B", "m">> >>
CAMELOT_MAJOR ==
    << <<"8", "B">>, <<"3", "B">>, <<"1", "0", "B">>, <<"5", "B">>,
       <<"1", "2", "B">>, <<"7", "B">>, <<"2", "B">>, <<"9", "B">>,
       <<"4", "B">>, <<"1", "1", "B">>, <<"6", "B">>, <<"1", "B">> >>
CamelotMinorParallel ==
    << <<"8", "A">>, <<"3", "A">>, <<"1", "0", "A">>, <<"5", "A">>,
       <<"1", "2", "A">>, <<"7", "A">>, <<"2", "A">>, <<"9", "A">>,
       <<"4", "A">>, <<"1", "1", "A">>, <<"6", "A">>, <<"1", "A">> >>
CAMELOT_MINOR ==
    << <<"5", "A">>, <<"1", "2", "A">>, <<"7", "A">>, <<"2", "A">>,
       <<"9", "A">>, <<"4", "A">>, <<"1", "1", "A">>, <<"6", "A">>,
       <<"1", "A">>, <<"8", "A">>, <<"3", "A">>, <<"1", "0", "A">> >>
OPENKEY_MAJOR ==
    << <<"8", "d">>, <<"3", "d">>, <<"1", "0", "d">>, <<"5", "d">>,
       <<"1", "2", "d">>, <<"7", "d">>, <<"2", "d">>, <<"9", "d">>,
       <<"4", "d">>, <<"1", "1", "d">>, <<"6", "d">>, <<"1", "d">> >>
OPENKEY_MINOR ==
    << <<"5", "m">>, <<"1", "2", "m">>, <<"7", "m">>, <<"2", "m">>,
       <<"9", "m">>, <<"4", "m">>, <<"1", "1", "m">>, <<"6", "m">>,
       <<"1", "m">>, <<"8", "m">>, <<"3", "m">>, <<"1", "0", "m">> >>

\* The characters that are decimal digits, in order of value.
Digits == <<"0", "1", "2", "3", "4", "5", "6", "7", "8", "9">>

RECURSIVE ParseU32(_, _)
\* str::parse::<u32> continued after the value `acc`: None unless every
\* character is a digit.
ParseU32(chars, acc) ==
    IF chars = << >> THEN Some(acc)
    ELSE IF \E d \in 1..10 : Digits[d] = Head(chars)
    THEN ParseU32(Tail(chars),
                  10 * acc + ((CHOOSE d \in 1..10 : Digits[d] = Head(chars)) - 1))
    ELSE None

\* `&name[..name.len() - 1]` parsed: the number of a code, None if it has none.
CodeNumber(name) ==
    IF Len(name) < 2 THEN None ELSE ParseU32(SubSeq(name, 1, Len(name) - 1), 0)

\* `&name[name.len() - 1..]`
CodeLetter(name) == name[Len(name)]

\* The checks of test_camelot_tables_valid on one code.
CamelotWellFormed(name) ==
    /\ Len(name) >= 2
    /\ CodeNumber(name) # None
    /\ CodeNumber(name).val >= 1
    /\ CodeNumber(name).val <= 12
    /\ CodeLetter(name) \in {"A", "B"}

\* An f64 correlation: a number counted in units of 1e-8, NaN or -infinity.
CORR_SCALE == 100000000
Num(v) == [k |-> "num", v |-> v]
NaN == [k |-> "nan", v |-> 0]
NEG_INFINITY == [k |-> "-inf", v |-> 0]
INFINITY == [k |-> "inf", v |-> 0]

\* a > b on f64: false when either side is NaN.
Gt(a, b) ==
    CASE a.k = "nan" \/ b.k = "nan" -> FALSE
      [] a.k = "inf"  -> b.k # "inf"
      [] a.k = "-inf" -> FALSE
      [] b.k = "inf"  -> FALSE
      [] b.k = "-inf" -> TRUE
      [] OTHER        -> a.v > b.v

\* Chromagrams as compute_chromagram leaves them, in twelfths: all zero
\* (silence), or summing to 1: flat, a C major and an A minor triad with
\* some spill, a single pitch class.
Chromagrams ==
    { <<0, 0, 0, 0, 0, 0, 0, 0, 0, 0, 0, 0>>,
      <<1, 1, 1, 1, 1, 1, 1, 1, 1, 1, 1, 1>>,
      <<4, 0, 1, 0, 3, 0, 0, 3, 0, 1, 0, 0>>,
      <<3, 0, 1, 0, 3, 0, 0, 1, 0, 4, 0, 0>>,
      <<0, 0, 0, 0, 0, 0, 0, 0, 0, 0, 0, 12>> }

\* All 12 bins equal.
Flat(chromagram) == \A i \in 1..12 : chromagram[i] = chromagram[1]

\* What f64 rounding leaves of the correlations of a flat chromagram that
\* is not zero, where numerator and variance are 0 in exact arithmetic.
\* x is the same in every rotation, so a profile has one value for all 12
\* roots.  n * sum_x2 - sum_x * sum_x rounds to 0 or below the threshold
\* (both 0), below 0 (the square root, and every quotient, is NaN), or above
\* (residues of some 1e-8): the outcomes for bins of 1/12 as normalisation
\* rounds them.
Exact == [major |-> Num(0), minor |-> Num(0)]
Roundings ==
    { Exact,
      [major |-> NaN, minor |-> NaN],
      [major |-> Num(0), minor |-> Num(-7)],
      [major |-> Num(2), minor |-> Num(0)],
      [major |-> Num(3), minor |-> Num(-3)],
      [major |-> Num(-3), minor |-> Num(0)] }

\* The roundings a chromagram is open to.
RoundingsOf(chromagram) ==
    IF Flat(chromagram) /\ chromagram[1] # 0 THEN Roundings ELSE {Exact}

RECURSIVE ISqrtIn(_, _, _)
\* The integer square root of n, known to lie in lo..hi.
ISqrtIn(n, lo, hi) ==
    IF lo >= hi THEN lo
    ELSE LET mid == (lo + hi + 1) \div 2
         IN  IF mid * mid <= n THEN ISqrtIn(n, mid, hi) ELSE ISqrtIn(n, lo, mid - 1)

\* pearson_correlation with the profile rotated to `root`.  Where the
\* denominator is far from the 1e-10 threshold the quotient is taken to
\* three decimals; where it is 0 in exact arithmetic, the sums of zeros are
\* exact and those of other values leave the residue `rounded`.
pearson_correlation(chromagram, profile, root, rounded) ==
    LET Sum12(F(_)) ==
            LET upTo[i \in 0..12] == IF i = 0 THEN 0 ELSE upTo[i - 1] + F(i - 1)
            IN  upTo[12]
        x(i)   == chromagram[((root + i) % 12) + 1]
        y(i)   == profile[i + 1]
        xy(i)  == x(i) * y(i)
        x2(i)  == x(i) * x(i)
        y2(i)  == y(i) * y(i)
        sum_x  == Sum12(x)
        sum_y  == Sum12(y)
        numerator == 12 * Sum12(xy) - sum_x * sum_y
        var_x  == 12 * Sum12(x2) - sum_x * sum_x
        var_y  == 12 * Sum12(y2) - sum_y * sum_y
    IN  IF var_x * var_y = 0
        THEN IF \A i \in 0..11 : x(i) = 0 THEN Num(0) ELSE rounded
        ELSE Num(((1000 * numerator) \div ISqrtIn(var_x * var_y, 1, 46340))
                 * (CORR_SCALE \div 1000))

\* match_key_profiles: the body of the inner loop for one correlation.
TrackBest(m, corr, root, is_minor) ==
    IF Gt(corr, m.best_correlation)
    THEN [ best_key |-> root, best_is_minor |-> is_minor,
           best_correlation |-> corr,
           second_best_correlation |-> m.best_correlation ]
    ELSE IF Gt(corr, m.second_best_correlation)
    THEN [m EXCEPT !.second_best_correlation = corr]
    ELSE m

\* match_key_profiles before the loop
MatchStart ==
    [ best_key |-> 0, best_is_minor |-> FALSE,
      best_correlation |-> NEG_INFINITY,
      second_best_correlation |-> NEG_INFINITY ]

\* a - b on f64, for a number a and a number or -infinity b
Minus(a, b) == IF b.k = "-inf" THEN INFINITY ELSE Num(a.v - b.v)

\* x.clamp(0.0, 1.0) in units of 1e-8
Clamp01(x) ==
    IF x.k = "inf" THEN CORR_SCALE
    ELSE IF x.v < 0 THEN 0
    ELSE IF x.v > CORR_SCALE THEN CORR_SCALE
    ELSE x.v

\* x * 8.0
Times8(x) == IF x.k = "inf" THEN x ELSE Num(8 * x.v)

\* Step 4 of detect_key_from_samples: the confidence, in units of 1e-9.
KeyConfidence(best_corr, second_best_corr) ==
    IF Gt(best_corr, Num(0))
    THEN LET gap       == Minus(best_corr, second_best_corr)
             gap_score == Clamp01(Times8(gap))
             strength  == Clamp01(best_corr)
             blended   == gap_score * 7 + strength * 3
         IN  IF blended < 0 THEN 0
             ELSE IF blended > 10 * CORR_SCALE THEN 10 * CORR_SCALE
             ELSE blended
    ELSE 0

KeyResultMajorName(m) ==
    [ tag |-> "Ok",
      camelot     |-> IF m.best_is_minor THEN CAMELOT_MINOR[m.best_key + 1]
                      ELSE CAMELOT_MAJOR[m.best_key + 1],
      open_key    |-> IF m.best_is_minor THEN OPENKEY_MINOR[m.best_key + 1]
                      ELSE OPENKEY_MAJOR[m.best_key + 1],
      musical_key |-> MAJOR_NAMES[m.best_key + 1],
      confidence  |-> KeyConfidence(m.best_correlation, m.second_best_correlation) ]

KeyResultOpenKeyFirst(m) ==
    [ tag |-> "Ok",
      camelot     |-> IF m.best_is_minor THEN OPENKEY_MINOR[m.best_key + 1]
                      ELSE OPENKEY_MAJOR[m.best_key + 1],
      open_key    |-> IF m.best_is_minor THEN CAMELOT_MINOR[m.best_key + 1]
                      ELSE CAMELOT_MAJOR[m.best_key + 1],
      musical_key |-> IF m.best_is_minor THEN MINOR_NAMES[m.best_key + 1]
                      ELSE MAJOR_NAMES[m.best_key + 1],
      confidence  |-> KeyConfidence(m.best_correlation, m.second_best_correlation) ]

\* Steps 3 and 4 of detect_key_from_samples
KeyResult(m) ==
    [ tag |-> "Ok",
      camelot     |-> IF m.best_is_minor THEN CAMELOT_MINOR[m.best_key + 1]
                      ELSE CAMELOT_MAJOR[m.best_key + 1],
      open_key    |-> IF m.best_is_minor THEN OPENKEY_MINOR[m.best_key + 1]
                      ELSE OPENKEY_MAJOR[m.best_key + 1],
      musical_key |-> IF m.best_is_minor THEN MINOR_NAMES[m.best_key + 1]
                      ELSE MAJOR_NAMES[m.best_key + 1],
      confidence  |-> KeyConfidence(m.best_correlation, m.second_best_correlation) ]

\* Correlations that match_key_profiles can hand to step 4, in units of 1e-8.
Correlations ==
    { Num(v) : v \in { -CORR_SCALE, -(CORR_SCALE \div 2), -1, 0, 1,
                       CORR_SCALE \div 10, CORR_SCALE \div 8,
                       CORR_SCALE \div 2, CORR_SCALE } }
       \cup { NEG_INFINITY }

\* Step 4 of detect_key_from_samples on its own, for any best and
\* second-best correlation.
KeyConfidenceCall(best_corr, second_best_corr) ==
    /\ call.op = "none"
    /\ call' = [ op |-> "key_confidence", at |-> "returned",
                 best_corr |-> best_corr, second_best_corr |-> second_best_corr,
                 ret |-> [ tag |-> "Ok",
                           confidence |-> KeyConfidence(best_corr, second_best_corr) ] ]
    /\ UNCHANGED <<files, decoder>>
    /\ UNCHANGED blobVars
    /\ UNCHANGED playVars

TooShortOrOneFrame(n_samples) == n_samples <= FFT_SIZE

\* `audio.samples.len() < FFT_SIZE`
TooShort(n_samples) == n_samples < FFT_SIZE

\* detect_key_from_samples up to the chromagram: the length checks.
DetectKeyCall(n_samples, chromagram, rounding) ==
    /\ call.op = "none"
    /\ call' =
          IF IsEmpty(n_samples)
          THEN [ op |-> "detect_key", n_samples |-> n_samples, at |-> "returned",
                 ret |-> [tag |-> "Err", msg |-> "No audio samples to analyze"] ]
          ELSE IF TooShort(n_samples)
          THEN [ op |-> "detect_key", n_samples |-> n_samples, at |-> "returned",
                 ret |-> [tag |-> "Err", msg |-> "Audio too short for key detection"] ]
          ELSE [ op |-> "detect_key", n_samples |-> n_samples, at |-> "matching",
                 chromagram |-> chromagram, rounding |-> rounding,
                 done |-> 0, corr |-> Num(0), corrs |-> << >>,
                 nonzero |-> FALSE, m |-> MatchStart ]
    /\ UNCHANGED <<files, decoder>>
    /\ UNCHANGED blobVars
    /\ UNCHANGED playVars

\* match_key_profiles: the next of the 24 correlations, major before minor
\* for each root.
KeyCorrelate ==
    /\ call.op = "detect_key"
    /\ call.at = "matching"
    /\ call.done < 24
    /\ LET root     == call.done \div 2
           is_minor == call.done % 2 = 1
           corr     == pearson_correlation(call.chromagram,
                          IF is_minor THEN SHAATH_MINOR ELSE SHAATH_MAJOR,
                          root,
                          IF is_minor THEN call.rounding.minor
                          ELSE call.rounding.major)
       IN  call' = [call EXCEPT !.done = @ + 1,
                                !.corr = corr,
                                !.corrs = Append(@, corr),
                                !.nonzero = @ \/ corr # Num(0),
                                !.m = TrackBest(@, corr, root, is_minor)]
    /\ UNCHANGED <<files, decoder>>
    /\ UNCHANGED blobVars
    /\ UNCHANGED playVars

\* detect_key_from_samples from the end of match_key_profiles to its return.
KeyReturn ==
    /\ call.op = "detect_key"
    /\ call.at = "matching"
    /\ call.done = 24
    /\ call' = [ op |-> "detect_key", n_samples |-> call.n_samples, at |-> "returned",
                 chromagram |-> call.chromagram, nonzero |-> call.nonzero,
                 corrs |-> call.corrs,
                 m |-> call.m, ret |-> KeyResult(call.m) ]
    /\ UNCHANGED <<files, decoder>>
    /\ UNCHANGED blobVars
    /\ UNCHANGED playVars

\* ---- waveform generator (waveform.rs) ----

\* The longest short buffer and the largest target_points of the model.
MaxSamples == 9
MaxTarget == 4

\* FFT sizes are capped at 2048.
FFT_CAP == 2048

\* Buffer lengths: the short ones, and lengths around the FFT cap.
BufferLengths == (0..MaxSamples) \cup {2047, 2048, 2049, 4100}

\* Sample rates a decoded file can carry.
SampleRates == {4000, 7999, 8000, 22050, 44100}

\* The decoded audio: samples of magnitude 0 but for one of magnitude 1 at
\* index `loud`.
MonoAudios ==
    UNION { { [n_samples |-> n, loud |-> l, sample_rate |-> r] :
                l \in (IF n = 0 THEN {0} ELSE {0, n - 1}), r \in SampleRates } :
            n \in BufferLengths }

Smaller(a, b) == IF a < b THEN a ELSE b

RECURSIVE PowerOfTwoFrom(_, _)
\* The smallest power of two that is at least n, among p, 2p, 4p, ...
PowerOfTwoFrom(n, p) == IF p >= n THEN p ELSE PowerOfTwoFrom(n, 2 * p)

RECURSIVE PowerOfTwoWithin(_, _)
PowerOfTwoWithin(n, p) == IF 2 * p > n THEN p ELSE PowerOfTwoWithin(n, 2 * p)

PowerOfTwoBelow(n) == PowerOfTwoWithin(n, 1)

\* usize::next_power_of_two
next_power_of_two(n) == PowerOfTwoFrom(n, 1)

\* `(audio.samples.len() / target_points).max(1)`
samples_per_point(len, target_points) ==
    IF len \div target_points < 1 THEN 1 ELSE len \div target_points

\* `(audio.samples.len() / samples_per_point).min(target_points)`
actual_points(len, per_point, target_points) ==
    Smaller(len \div per_point, target_points)

\* `samples_per_point.next_power_of_two().min(2048)`
fft_size_of(per_point) == Smaller(next_power_of_two(per_point), FFT_CAP)

\* The slice of point i: `start..end`
Segment(i, per_point, len) ==
    [start |-> i * per_point, end |-> Smaller((i + 1) * per_point, len)]

\* `&v[start..end]` does not panic
SliceOk(start, end, len) == start <= end /\ end <= len

\* The peak of a slice: the largest magnitude in it.
Peak(audio, seg) ==
    IF seg.start <= audio.loud /\ audio.loud < seg.end THEN 1 ELSE 0

\* The bins that delimit the bands: f / freq_per_bin truncated, with
\* freq_per_bin = sample_rate / fft_size, and high_end capped at the length
\* of the magnitude spectrum.
BandBins(fft_size, sample_rate) ==
    [ low_start |-> (20 * fft_size) \div sample_rate,
      low_end   |-> (250 * fft_size) \div sample_rate,
      mid_end   |-> (4000 * fft_size) \div sample_rate,
      high_end  |-> Smaller((16000 * fft_size) \div sample_rate, fft_size \div 2),
      len       |-> fft_size \div 2 ]

\* compute_frequency_bands: the bins summed for a slice, "panic" where a
\* band's range is not a slice of the magnitudes.  The sums and their
\* scaling to bytes are f32 work on the FFT output and stay outside.
compute_frequency_bands(slice_len, fft_size, sample_rate) ==
    LET b == BandBins(fft_size, sample_rate)
    IN  IF slice_len = 0 THEN [tag |-> "zero"]
        ELSE IF /\ SliceOk(b.low_start, b.low_end, b.len)
                /\ SliceOk(b.low_end, b.mid_end, b.len)
                /\ SliceOk(b.mid_end, b.high_end, b.len)
        THEN [tag |-> "bands", bins |-> b]
        ELSE [tag |-> "panic", bins |-> b]

\* generate_waveform after decode_to_mono has returned `audio`.
generate_waveform(audio, target_points) ==
    IF audio.n_samples = 0 THEN [tag |-> "Err", msg |-> "Audio file has no samples"]
    ELSE IF target_points = 0 THEN [tag |-> "panic", at |-> "divide by zero"]
    ELSE LET len       == audio.n_samples
             per_point == samples_per_point(len, target_points)
             n_points  == actual_points(len, per_point, target_points)
             fft_size  == fft_size_of(per_point)
             seg(i)    == Segment(i - 1, per_point, len)
             bands(i)  == compute_frequency_bands(seg(i).end - seg(i).start,
                                                  fft_size, audio.sample_rate)
         IN  IF \E i \in 1..n_points : ~SliceOk(seg(i).start, seg(i).end, len)
             THEN [tag |-> "panic", at |-> "slice"]
             ELSE IF \E i \in 1..n_points : bands(i).tag = "panic"
             THEN [ tag |-> "panic", at |-> "bands",
                    samples_per_point |-> per_point, fft_size |-> fft_size,
                    bins |-> BandBins(fft_size, audio.sample_rate) ]
             ELSE [ tag |-> "Ok", samples_per_point |-> per_point,
                    fft_size |-> fft_size,
                    segments |-> [i \in 1..n_points |-> seg(i)],
                    points |-> [i \in 1..n_points |->
                                  [peak |-> Peak(audio, seg(i)), bands |-> bands(i)]],
                    sample_rate |-> audio.sample_rate ]

GenerateWaveformCall(audio, target_points) ==
    /\ call.op = "none"
    /\ call' = [ op |-> "generate_waveform", at |-> "returned",
                 audio |-> audio, target_points |-> target_points,
                 ret |-> generate_waveform(audio, target_points) ]
    /\ UNCHANGED <<files, decoder>>
    /\ UNCHANGED blobVars
    /\ UNCHANGED playVars

AnalysisNext ==
    \/ \E setup \in Setups, kinds \in SeqsUpTo(EventKinds, MaxStream),
          n_frames \in {None, Some(4410)}, sample_rate \in {None, Some(48000)} :
          DecodeToMonoCall(setup, kinds, n_frames, sample_rate)
    \/ \E n_samples \in SampleCounts,
          tempo \in [ new_ok : BOOLEAN, do_ok : BOOLEAN, bpm : RawBpms,
                      confidence : RawConfidences ] :
          DetectBpmCall(n_samples, tempo)
    \/ \E n_samples \in SampleCounts, chromagram \in Chromagrams :
          \E rounding \in RoundingsOf(chromagram) :
             DetectKeyCall(n_samples, chromagram, rounding)
    \/ KeyCorrelate
    \/ KeyReturn
    \/ \E best_corr \in Correlations, second_best_corr \in Correlations :
          KeyConfidenceCall(best_corr, second_best_corr)
    \/ \E audio \in MonoAudios, target_points \in 0..MaxTarget :
          GenerateWaveformCall(audio, target_points)

SpecAnalysis == AnalysisInit /\ [][AnalysisNext]_vars

\* C11: decode_to_mono returns Err only when the file cannot be opened or
\* probed, has no audio track, or its codec cannot be made; with the packet
\* loop started it returns Ok.  A read error other than end of file, and a
\* codec error other than DecodeError, return Err from inside the loop, so
\* the property fails.
C11_ErrOnlyAtSetup ==
    (call.op = "decode_to_mono" /\ call.ret.tag = "Err") => call.setup # "ok"

\* The tempo estimator was called and the tracker reported an estimate.
BpmEstimated == call.op = "detect_bpm" /\ call.ret.tag = "Ok"

\* C14: a raw estimate that is not positive or lies outside [40, 300] gives
\* Ok with bpm 0 and confidence 0, whatever confidence the tracker reports.
C14_UnreasonableIsZero ==
    (BpmEstimated /\ (call.tempo.bpm <= 0 \/ call.tempo.bpm < 40 * BPM_SCALE
                      \/ call.tempo.bpm > 300 * BPM_SCALE))
        => (call.ret.bpm = 0 /\ call.ret.confidence = 0)

\* An estimate just below 40 with a confidence above 1 was reported as 0, 0.
C14_Witness ==
    /\ BpmEstimated
    /\ call.tempo.bpm = 40 * BPM_SCALE - 2
    /\ call.tempo.confidence > CONF_SCALE
    /\ call.ret.bpm = 0

\* C15: a raw estimate r in [40, 300] is reported as 2r if r < 80, as r/2 if
\* r > 200 and as r otherwise, with the tracker's confidence clamped to
\* [0, 1] and not changed otherwise.
C15_OctaveCorrection ==
    LET r == call.tempo.bpm
        c == call.tempo.confidence
    IN  (BpmEstimated /\ r >= 40 * BPM_SCALE /\ r <= 300 * BPM_SCALE) =>
            /\ r < 80 * BPM_SCALE => call.ret.bpm = 2 * r
            /\ r > 200 * BPM_SCALE => 2 * call.ret.bpm = r
            /\ (r >= 80 * BPM_SCALE /\ r <= 200 * BPM_SCALE) => call.ret.bpm = r
            /\ call.ret.confidence =
                  (IF c < 0 THEN 0 ELSE IF c > CONF_SCALE THEN CONF_SCALE ELSE c)

\* An estimate of 280 was halved to 140 and its confidence passed through.
C15_Witness ==
    /\ BpmEstimated
    /\ call.tempo.bpm = 280 * BPM_SCALE
    /\ call.ret.bpm = 140 * BPM_SCALE
    /\ call.ret.confidence = call.tempo.confidence
    /\ call.ret.confidence > 0

\* C16: an Ok result of the tempo estimator has bpm 0 with confidence 0, or
\* a bpm in [80, 200].
C16_BpmRange ==
    BpmEstimated =>
        \/ call.ret.bpm = 0 /\ call.ret.confidence = 0
        \/ call.ret.bpm >= 80 * BPM_SCALE /\ call.ret.bpm <= 200 * BPM_SCALE

\* The largest estimate that is halved came out at 150.
C16_Witness ==
    /\ BpmEstimated
    /\ call.tempo.bpm = 300 * BPM_SCALE
    /\ call.ret.bpm = 150 * BPM_SCALE

\* C12: on an empty sample buffer the tempo estimator and the key estimator
\* both return Err.
C12_EmptyIsErr ==
    (call.op \in {"detect_bpm", "detect_key"} /\ call.n_samples = 0)
        => (call.at = "returned" /\ call.ret.tag = "Err")

\* The tempo estimator refused an empty buffer though the tracker was sound.
C12_Witness ==
    /\ call.op = "detect_bpm"
    /\ call.n_samples = 0
    /\ call.tempo.new_ok
    /\ call.tempo.do_ok
    /\ call.ret.tag = "Err"

\* C13: the key estimator returns Err exactly for buffers of fewer than 4096
\* samples; with 4096 or more it goes on to match the profiles and returns
\* Ok, whatever the chromagram.
C13_ErrIffTooShort ==
    call.op = "detect_key" =>
        /\ call.at = "matching" => call.n_samples >= FFT_SIZE
        /\ call.at = "returned" =>
              /\ call.ret.tag \in {"Ok", "Err"}
              /\ call.ret.tag = "Err" <=> call.n_samples < FFT_SIZE

\* A buffer of exactly one window gave a result.
C13_Witness ==
    /\ call.op = "detect_key"
    /\ call.at = "returned"
    /\ call.n_samples = FFT_SIZE
    /\ call.ret.tag = "Ok"

\* C17: the confidence of an Ok result lies in [0, 1]: the tempo
\* estimator's for every finite tracker confidence, the key estimator's for
\* every best and second-best correlation.
C17_ConfidenceRange ==
    /\ BpmEstimated =>
          (call.ret.confidence >= 0 /\ call.ret.confidence <= CONF_SCALE)
    /\ (call.op \in {"detect_key", "key_confidence"} /\ call.at = "returned"
          /\ call.ret.tag = "Ok") =>
          (call.ret.confidence >= 0 /\ call.ret.confidence <= 10 * CORR_SCALE)

\* A best correlation of 1 with a second-best of -1, a gap of 2, gave
\* confidence 1.
C17_Witness ==
    /\ call.op = "key_confidence"
    /\ call.best_corr = Num(CORR_SCALE)
    /\ call.second_best_corr = Num(-CORR_SCALE)
    /\ call.ret.confidence = 10 * CORR_SCALE

\* The key estimator is matching, or has matched, a flat chromagram.
FlatCall ==
    call.op = "detect_key" /\ call.n_samples >= FFT_SIZE /\ Flat(call.chromagram)

\* C18: for a flat chromagram each of the 24 correlations is 0 and the key
\* estimator returns Ok with confidence exactly 0.  The test
\* `denominator < 1e-10` is meant to catch constant input, but rounding
\* leaves a denominator above it, or NaN, when the bins are not zero, so
\* the property fails.
C18_FlatIsExactlyZero ==
    FlatCall =>
        /\ ~call.nonzero
        /\ call.at = "returned" => (call.ret.tag = "Ok" /\ call.ret.confidence = 0)

\* The key estimator returned a key.
KeyReturned ==
    call.op = "detect_key" /\ call.at = "returned" /\ call.ret.tag = "Ok"

\* C19: the 24 Camelot codes of the tables are pairwise distinct, each is a
\* number in 1..12 followed by one letter A or B, and so is the camelot field
\* of every result of the key estimator.
C19_CamelotCodes ==
    /\ \A p \in 1..12 : CamelotWellFormed(CAMELOT_MAJOR[p])
    /\ \A p \in 1..12 : CamelotWellFormed(CAMELOT_MINOR[p])
    /\ \A p, q \in 1..12 :
          /\ CAMELOT_MAJOR[p] # CAMELOT_MINOR[q]
          /\ p # q => (CAMELOT_MAJOR[p] # CAMELOT_MAJOR[q]
                       /\ CAMELOT_MINOR[p] # CAMELOT_MINOR[q])
    /\ KeyReturned => CamelotWellFormed(call.ret.camelot)

\* The key estimator returned a minor key with a two-digit Camelot number.
C19_Witness ==
    /\ KeyReturned
    /\ call.m.best_is_minor
    /\ Len(call.ret.camelot) = 3
    /\ CodeNumber(call.ret.camelot).val >= 10

\* The minor key whose tonic is three semitones below the major tonic p.
RelativeMinor(p) == (p + 9) % 12

\* C20: for every pitch class p the Camelot number of the major key on p is
\* that of its relative minor, on (p + 9) mod 12, and the same for Open Key;
\* a returned minor key has the numbers of its relative major.
C20_RelativePairs ==
    /\ \A p \in 0..11 :
          /\ CodeNumber(CAMELOT_MAJOR[p + 1]) # None
          /\ CodeNumber(CAMELOT_MAJOR[p + 1])
                = CodeNumber(CAMELOT_MINOR[RelativeMinor(p) + 1])
          /\ CodeNumber(OPENKEY_MAJOR[p + 1]) # None
          /\ CodeNumber(OPENKEY_MAJOR[p + 1])
                = CodeNumber(OPENKEY_MINOR[RelativeMinor(p) + 1])
    /\ (KeyReturned /\ call.m.best_is_minor) =>
          \A p \in 0..11 : RelativeMinor(p) = call.m.best_key =>
              /\ CodeNumber(call.ret.camelot) = CodeNumber(CAMELOT_MAJOR[p + 1])
              /\ CodeNumber(call.ret.open_key) = CodeNumber(OPENKEY_MAJOR[p + 1])

\* A minor was returned with the Camelot number 8 of C major.
C20_Witness ==
    /\ KeyReturned
    /\ call.m.best_is_minor
    /\ call.m.best_key = RelativeMinor(0)
    /\ call.ret.camelot = <<"8", "A">>
    /\ CodeNumber(call.ret.camelot) = CodeNumber(CAMELOT_MAJOR[1])

\* C21: the three notations of a result are taken at the same index of the
\* tables of the same mode: camelot ends in A exactly when open_key ends in m
\* exactly when musical_key ends in m, and camelot ends in B exactly when
\* open_key ends in d exactly when musical_key does not end in m.
C21_SameKeyInThreeNotations ==
    KeyReturned =>
        LET ret == call.ret
        IN  /\ \E p \in 1..12 :
                  \/ /\ ret.camelot = CAMELOT_MAJOR[p]
                     /\ ret.open_key = OPENKEY_MAJOR[p]
                     /\ ret.musical_key = MAJOR_NAMES[p]
                  \/ /\ ret.camelot = CAMELOT_MINOR[p]
                     /\ ret.open_key = OPENKEY_MINOR[p]
                     /\ ret.musical_key = MINOR_NAMES[p]
            /\ CodeLetter(ret.camelot) = "A" <=> CodeLetter(ret.open_key) = "m"
            /\ CodeLetter(ret.open_key) = "m" <=> CodeLetter(ret.musical_key) = "m"
            /\ CodeLetter(ret.camelot) = "B" <=> CodeLetter(ret.open_key) = "d"
            /\ CodeLetter(ret.open_key) = "d" <=> CodeLetter(ret.musical_key) # "m"
            /\ CodeLetter(ret.camelot) \in {"A", "B"}

\* B minor was returned as 10A, 10m and Bm.
C21_Witness ==
    /\ KeyReturned
    /\ call.ret.camelot = <<"1", "0", "A">>
    /\ call.ret.open_key = <<"1", "0", "m">>
    /\ call.ret.musical_key = <<"B", "m">>

\* a >= b on f64
Ge(a, b) == a.k # "nan" /\ b.k # "nan" /\ ~Gt(b, a)

\* The place of the returned (tonic, mode) in the order of evaluation.
BestPlace == 2 * call.m.best_key + (IF call.m.best_is_minor THEN 2 ELSE 1)

\* The returned best is the maximum of the 24 correlations, at the first
\* place that attains it, and second is the largest of the other 23.
BestAndSecondOfAll ==
    LET cs     == call.corrs
        best   == call.m.best_correlation
        second == call.m.second_best_correlation
    IN  /\ Len(cs) = 24
        /\ cs[BestPlace] = best
        /\ \A i \in 1..24 : Ge(best, cs[i])
        /\ \A i \in 1..24 : i < BestPlace => Gt(best, cs[i])
        /\ \E j \in 1..24 : j # BestPlace /\ cs[j] = second
        /\ \A j \in 1..24 : j # BestPlace => Ge(second, cs[j])
        /\ Ge(best, second)

\* C25: match_key_profiles returns the maximum of the 24 correlations, the
\* first pair attaining it and the largest of the other 23.  When all 24
\* correlations of a flat chromagram are NaN nothing is selected and best
\* is -infinity, so the property fails.
C25_BestIsMaximum == KeyReturned => BestAndSecondOfAll

\* generate_waveform was called on a non-empty buffer with target_points >= 1.
WaveCall ==
    /\ call.op = "generate_waveform"
    /\ call.audio.n_samples >= 1
    /\ call.target_points >= 1

\* C22: for L >= 1 samples and T >= 1 the generator produces min(T, L)
\* points, point i from the samples [i*s, (i+1)*s) with s = max(L div T, 1);
\* the segments are non-empty, within the buffer, contiguous and disjoint.
\* The segments are so whenever points are produced, but for sample rates
\* below 8000 the band computation aborts (C30) and no point is produced, so
\* the property fails.
C22_PointsAndSegments ==
    WaveCall =>
        LET L == call.audio.n_samples
            T == call.target_points
            s == IF L \div T > 1 THEN L \div T ELSE 1
        IN  /\ call.ret.tag = "Ok"
            /\ Len(call.ret.points) = (IF T < L THEN T ELSE L)
            /\ Len(call.ret.segments) = Len(call.ret.points)
            /\ \A i \in 1..Len(call.ret.segments) :
                  /\ call.ret.segments[i].start = (i - 1) * s
                  /\ call.ret.segments[i].end = i * s
                  /\ call.ret.segments[i].start < call.ret.segments[i].end
                  /\ call.ret.segments[i].end <= L

\* C23: every sample index belongs to exactly one segment, so the largest
\* point peak is the largest magnitude of the buffer.  The samples from
\* index points * samples_per_point on belong to no segment, so the property
\* fails.
C23_SegmentsCoverBuffer ==
    (WaveCall /\ call.ret.tag = "Ok") =>
        LET segs == call.ret.segments
        IN  /\ \A j \in 0..(call.audio.n_samples - 1) :
                  Cardinality({ i \in 1..Len(segs) :
                                  segs[i].start <= j /\ j < segs[i].end }) = 1
            /\ \E i \in 1..Len(segs) : call.ret.points[i].peak = 1

\* n is a power of two, of those up to 4096.
IsPowerOfTwo(n) == \E k \in 0..12 : n = 2 ^ k

\* C24 as stated: the FFT size is a power of two that exceeds neither the
\* segment length nor 2048.  next_power_of_two rounds up, so for a segment
\* length that is not a power of two the FFT size exceeds it.
C24_FftSizeWithinSegment ==
    WaveCall =>
        /\ IsPowerOfTwo(call.ret.fft_size)
        /\ call.ret.fft_size <= call.ret.samples_per_point
        /\ call.ret.fft_size <= FFT_CAP

\* C24, amended: the FFT size is the smallest power of two that is not below
\* the segment length, capped at 2048: a power of two, at most 2048, at least
\* the segment length unless that exceeds 2048, and below twice the segment
\* length.
C24_FftSizeRoundedUp ==
    WaveCall =>
        LET fft_size  == call.ret.fft_size
            per_point == call.ret.samples_per_point
        IN  /\ IsPowerOfTwo(fft_size)
            /\ fft_size <= FFT_CAP
            /\ per_point <= FFT_CAP => fft_size >= per_point
            /\ per_point > FFT_CAP => fft_size = FFT_CAP
            /\ fft_size < 2 * per_point
            /\ per_point = (IF call.audio.n_samples \div call.target_points > 1
                            THEN call.audio.n_samples \div call.target_points ELSE 1)

\* Segments of 3 samples were given an FFT of size 4.
C24_Witness ==
    /\ WaveCall
    /\ call.ret.tag = "Ok"
    /\ call.ret.samples_per_point = 3
    /\ call.ret.fft_size = 4

\* C30: for every sample rate and every FFT size the generator can choose,
\* low_start <= low_end <= mid_end <= high_end <= fft_size / 2, and
\* generate_waveform does not abort.  mid_end is not capped at the length of
\* the spectrum: for a sample rate below 8000 it exceeds high_end and the
\* band sums index out of range, so the property fails.
C30_BandBinsWellFormed ==
    WaveCall =>
        /\ call.ret.tag # "panic"
        /\ \A i \in 1..Len(call.ret.points) :
              LET b == call.ret.points[i].bands.bins
              IN  /\ b.low_start <= b.low_end
                  /\ b.low_end <= b.mid_end
                  /\ b.mid_end <= b.high_end
                  /\ b.high_end <= call.ret.fft_size \div 2

\* C26: when seek repositions the decoder, every loop of an earlier
\* generation has stopped decoding.  With the commands run one at a time the
\* current generation is the seek's: while the seek holds the decoder for
\* AudioDecoder::seek, no loop that captured an earlier generation is past
\* its generation check and waiting for the loaded decoder, about to call
\* decode_next_chunk at the new position.  Nothing but the 50 ms sleep keeps
\* such a loop from being there, so the property fails.
C26_NoDecodeAfterSeek ==
    (limits.cmds = 1 /\ cmd[1].pc = "seeking" /\ decoder.some) =>
        \A lp \in BagToSet(loop) :
            lp.gen < task_generation => lp.pc # "lock_decoder"

\* C27: the end of a cancelled loop does not stop a newer playback.  When a
\* loop of an earlier generation ends while is_playing is true and a loop of
\* the current generation, started by a later play, is running, is_playing
\* is still true afterwards.
C27_CancelledExitKeepsPlaying ==
    [][ \A lp \in BagToSet(loop) :
          ( /\ lp.pc = "exit"
            /\ lp.gen < task_generation
            /\ loop' = loop (-) SetToBag({lp})
            /\ is_playing
            /\ \E newer \in BagToSet(loop) :
                  newer.gen = task_generation /\ newer.pc # "exit" )
          => is_playing' ]_vars

\* The mutex the command c is waiting for, by the lock() call it stands at.
Wants(c) ==
    CASE cmd[c].pc \in {"lt_decoder", "seek_lock", "stop_decoder", "status_decoder"}
              -> "decoder"
      [] cmd[c].pc \in {"lt_track_id", "stop_track_id", "status_track_id"}
              -> "current_track_id"
      [] cmd[c].pc \in {"lt_is_playing", "status_is_playing"} -> "is_playing"
      [] cmd[c].pc = "play_spawn" -> "task_generation"
      [] OTHER -> "none"

\* The mutex the loop in state lp is waiting for.
LoopWants(lp) ==
    CASE lp.pc \in {"lock_decoder", "error_position"} -> "decoder"
      [] lp.pc \in {"check_playing", "exit"} -> "is_playing"
      [] lp.pc = "check_gen" -> "task_generation"
      [] OTHER -> "none"

\* The sets of commands each of which waits for a mutex that another of the
\* set holds: none of them can ever take a step again.
DeadlockedSets ==
    { S \in (SUBSET DOMAIN cmd) \ {{}} :
        \A c \in S : /\ Wants(c) # "none"
                     /\ \E k \in S : mutex[Wants(c)] = Cmd(k) }

\* C28: the playback commands are deadlock-free: in no interleaving do some
\* of them wait for each other's mutexes for ever.
C28_NoDeadlock == DeadlockedSets = {}

\* C29: every loop started by play eventually terminates.  A loop that
\* terminates must be able to get the mutex it waits for: no loop waits for
\* a mutex held by a command that can never release it.
C29_LoopCanTerminate ==
    \A lp \in BagToSet(loop) :
        LoopWants(lp) # "none" =>
            \A S \in DeadlockedSets : \A k \in S : mutex[LoopWants(lp)] # Cmd(k)

====
